---- MODULE Spec2Model ----
(***************************************************************************)
(* Model of the Atlan sync engine (src/src/atlan_service.py, AtlanClient)  *)
(* and of the parts of src/src/trustlogix.py and src/src/main.py that feed *)
(* it.  Names (category names, display names, tag identifiers) are         *)
(* sequences of one-character strings, so that the string functions of the *)
(* source (re.sub, strip, upper, startswith) are computed, not assumed.    *)
(***************************************************************************)
EXTENDS Integers, Sequences, FiniteSets, TLC

(***************************************************************************)
(* Characters and strings                                                  *)
(***************************************************************************)
LowerChars == <<"a","b","c","d","e","f","g","h","i","j","k","l","m",
                "n","o","p","q","r","s","t","u","v","w","x","y","z">>
UpperChars == <<"A","B","C","D","E","F","G","H","I","J","K","L","M",
                "N","O","P","Q","R","S","T","U","V","W","X","Y","Z">>
DigitChars == <<"0","1","2","3","4","5","6","7","8","9">>

Range(s) == {s[i] : i \in 1..Len(s)}

LowerSet == Range(LowerChars)
UpperSet == Range(UpperChars)
AlnumSet == LowerSet \cup UpperSet \cup Range(DigitChars)

\* The character class [A-Za-z0-9] of the regular expression in _make_tag_id.
IsAlnum(c) == c \in AlnumSet

ToUpper == [c \in LowerSet |->
              UpperChars[CHOOSE i \in 1..Len(LowerChars) : LowerChars[i] = c]]
ToLower == [c \in UpperSet |->
              LowerChars[CHOOSE i \in 1..Len(UpperChars) : UpperChars[i] = c]]

\* str.upper() on one character (the characters that reach it are ASCII).
UpperChar(c) == IF c \in LowerSet THEN ToUpper[c] ELSE c

Upper(s) == [i \in 1..Len(s) |-> UpperChar(s[i])]

\* str.lower() on one character.
LowerChar(c) == IF c \in UpperSet THEN ToLower[c] ELSE c

Lower(s) == [i \in 1..Len(s) |-> LowerChar(s[i])]

\* str.startswith(prefix)
StartsWith(s, p) == Len(p) <= Len(s) /\ SubSeq(s, 1, Len(p)) = p

\* re.sub(r'[^A-Za-z0-9]+', '_', s): every maximal run of characters outside
\* the class is replaced by one underscore.
RECURSIVE ReSubNonAlnum(_)
ReSubNonAlnum(s) ==
    IF s = <<>> THEN <<>>
    ELSE IF IsAlnum(Head(s)) THEN <<Head(s)>> \o ReSubNonAlnum(Tail(s))
    ELSE IF Len(s) >= 2 /\ ~IsAlnum(s[2]) THEN ReSubNonAlnum(Tail(s))
    ELSE <<"_">> \o ReSubNonAlnum(Tail(s))

\* str.strip('_'): leading and trailing underscores are removed.
RECURSIVE LStrip(_)
LStrip(s) == IF s # <<>> /\ Head(s) = "_" THEN LStrip(Tail(s)) ELSE s

RECURSIVE RStrip(_)
RStrip(s) ==
    IF s # <<>> /\ s[Len(s)] = "_" THEN RStrip(SubSeq(s, 1, Len(s) - 1)) ELSE s

Strip(s) == RStrip(LStrip(s))

TAG_PREFIX == <<"T","L","X","_">>

\* A mutant of _make_tag_id: the case fold is forgotten.
MakeTagIdNoUpper(category_name) ==
    TAG_PREFIX \o Strip(ReSubNonAlnum(category_name))

\* AtlanClient._make_tag_id
MakeTagId(category_name) ==
    TAG_PREFIX \o Upper(Strip(ReSubNonAlnum(category_name)))

(***************************************************************************)
(* Bounds                                                                  *)
(***************************************************************************)
\* The longest category name given to _make_tag_id.
MaxLen == 3
\* The number of HTTP attempts of one run that the catalog answers with
\* anything but the natural answer (a 200 with a JSON body), and the number
\* of operations of one run, where the run is of the tag operations alone.
MaxTagFaults == 2
MaxTagOps == 3
MaxNamesakeFaults == 1
\* The same two budgets where the run is of the registry scan and tag syncs.
MaxSyncFaults == 2
MaxSyncOps == 3
\* The same two budgets where the run is of bare _request calls.
MaxReqFaults == 5
MaxReqOps == 5
\* The largest desired tag set given directly to _sync_tags_on_asset.
MaxDesired == 2

\* The characters the category names are drawn from: two letters that differ
\* by case only, a digit, and two non-alphanumerics.
Alphabet == {"a", "A", "1", "-", "_"}

StrUpTo(n) == UNION {[1..k -> Alphabet] : k \in 0..n}

\* The domain resolutions: the entities of the catalog, the GUIDs of an
\* asset, the faulty answers and the operations of a run.
MaxDomains == 2
MaxGuids == 2
MaxDomFaults == 1
MaxDomOps == 3

\* The findings of a scan, and the faulty answers and the update_asset
\* calls of a run.
MaxFindings == 2
MaxUpdFaults == 1
MaxUpdates == 1
\* The permission denials and the update_asset calls of a run in which the
\* token loses its rights.
MaxDenials == 3
MaxDeniedUpdates == 2

\* The domain updates of a run: faulty answers and calls of update_domain.
MaxDomUpdFaults == 1
MaxDomUpdates == 1

\* The schema provisioning of a run: faulty answers and calls of
\* ensure_metadata_def.
MaxSchemaFaults == 2
MaxSchemaOps == 1

(***************************************************************************)
(* Program constants                                                       *)
(***************************************************************************)
\* AtlanClient._ABORT_THRESHOLD
ABORT_THRESHOLD == 3
\* AtlanClient._MAX_RETRIES
MAX_RETRIES == 3

\* Python's None, for the fields that hold a name.
None == "None"

\* The category names given to ensure_dynamic_tag by ensure_rollup_tag.
HighRiskName ==
    <<"T","r","u","s","t","L","o","g","i","x"," ","H","i","g","h"," ",
      "R","i","s","k">>
RisksDetectedName ==
    <<"T","r","u","s","t","L","o","g","i","x"," ","R","i","s","k","s"," ",
      "D","e","t","e","c","t","e","d">>
VerifiedName ==
    <<"T","r","u","s","t","L","o","g","i","x"," ","D","a","t","a"," ",
      "A","c","c","e","s","s"," ","G","o","v","e","r","n","a","n","c","e"," ",
      "V","e","r","i","f","i","e","d">>

(***************************************************************************)
(* The environment: the scanner's categories and the catalog's contents    *)
(***************************************************************************)
\* Two category names of the scanner that differ by case and punctuation,
\* and a third one.
CatPii == <<"P","i","i"," ","X">>
CatPiiAlt == <<"P","I","I","-","x">>
CatStale == <<"S","t","a","l","e">>
ScanCategories == {CatPii, CatPiiAlt, CatStale}

\* A classification of the catalog that is not of this system.
ForeignTag == <<"P","H","I">>
ForeignDef == [name |-> ForeignTag, displayName |-> <<"P","h","i">>]

\* The name the catalog gives a created classification when it assigns
\* names itself (Atlan hashes them): never the requested one.
HashedName(display) == <<"#">> \o display

Assets == {"g1"}

\* The classification typedefs the catalog may hold when the run starts:
\* none; a foreign one; with it, a tag of an earlier run under its requested
\* name, or under a catalog-assigned name.
StaleDef == [name |-> MakeTagId(CatStale), displayName |-> CatStale]
HashedHighRiskDef ==
    [name |-> HashedName(HighRiskName), displayName |-> HighRiskName]

InitClassDefs ==
    { <<>>,
      <<ForeignDef>>,
      <<ForeignDef, StaleDef>>,
      <<HashedHighRiskDef, ForeignDef, StaleDef>> }

DefNames(defs) == {defs[i].name : i \in 1..Len(defs)}

VARIABLES
    \* AtlanClient fields
    created_tags, tlx_tag_names, consecutive_403,
    \* the remote catalog
    cat_classdefs, cat_tags, cat_hashes,
    \* control: the position in the running operation, its callee frames, and
    \* the HTTP request in flight
    pc, edt, syn, req,
    \* the budgets of the run: faulty HTTP answers and operations left
    faultsLeft, opsLeft,
    \* history: the run of 403 responses that ends the responses received so
    \* far, whether the counter ever reached the threshold, the tag sync
    \* completed just before this operation, the last return value
    trail403, tripped, prevSync, lastRet,
    \* the two category names under comparison and their identifiers
    nameA, nameB, idA, idB, tpc,
    \* AtlanClient._domain_guid_map, the DataDomain entities of the catalog,
    \* and the argument and the result of the last domain resolution
    domain_guid_map, cat_domains, dom_in, dom_out,
    \* AtlanClient._cm_internal_name and _attr_names, the frame of the
    \* running update_asset, and the number of requests sent since the
    \* running operation began
    cm_internal_name, attr_names, ua, calls,
    \* the risk summary of the scanned account (main's risk_summary)
    risk_summary,
    \* history: the outcomes of the HTTP attempts of the running bare call of
    \* _request, in order
    outs,
    \* the frame of the running update_domain
    ud,
    \* the business-metadata typedefs of the catalog, whether the catalog
    \* drops the attributes an update leaves out, and the frame of the
    \* running ensure_metadata_def
    cat_bm, cat_replaces, emd,
    \* history: the number of 403 responses received since the last 2xx
    \* response (or since construction), counted up to the threshold
    since2xx,
    \* history: build_tlx_tag_registry was called when _created_tags held a
    \* tag already
    rebuilt,
    \* history: the category names for which a call of ensure_dynamic_tag
    \* has returned, and what those calls returned: the category name, the
    \* identifier, and whether the call sent a create request
    ensured, returned,
    \* the Persona entities, the AuthPolicy entities and the Badge entities of
    \* the catalog, and the frames of the running ensure_metadata_policy and
    \* ensure_badges
    cat_personas, cat_policies, cat_badges, emp, ebd,
    \* the asset entities of the catalog, and the frame of main
    cat_assets, mn,
    \* the badge the catalog shows last: the badge, the attribute value, and
    \* the rule that coloured it
    shown

clientvars == <<created_tags, tlx_tag_names, consecutive_403>>
catvars == <<cat_classdefs, cat_tags, cat_hashes>>
ctlvars == <<pc, edt, syn, req>>
histvars == <<faultsLeft, opsLeft, trail403, tripped, prevSync, lastRet>>
tagvars == <<nameA, nameB, idA, idB, tpc, shown>>
domvars == <<domain_guid_map, cat_domains, dom_in, dom_out>>
runvars == <<cm_internal_name, attr_names, risk_summary>>
updvars == <<runvars, ua>>
\* the outcomes of the attempts of the bare _request call in flight
schemavars == <<cat_bm, cat_replaces, emd>>
\* the late variables but the count of 403 responses
\* what badge and policy provisioning works on: the entities a request can
\* change, and the rest
mainvars == <<cat_assets, mn>>
provcat == <<cat_policies, cat_badges>>
provkeeps == <<cat_personas, emp, ebd, mainvars>>
provvars == <<provcat, provkeeps>>
latekeeps == <<rebuilt, ensured, returned, provkeeps>>
\* the newer variables but the two histories of the tag registry
morekeeps == <<outs, ud, schemavars, since2xx, provvars>>
latevars == <<since2xx, latekeeps, provcat>>
morevars == <<outs, ud, schemavars, latevars>>
sidevars == <<tagvars, domvars, updvars, morevars>>

vars == <<clientvars, catvars, ctlvars, histvars, sidevars, calls>>

(***************************************************************************)
(* _request: one HTTP attempt at a time                                    *)
(***************************************************************************)
NoReq == [st |-> "idle", method |-> "", ep |-> "", arg |-> <<>>,
          attempt |-> 0, ret |-> "none", resp |-> <<>>, applied |-> FALSE]

NewReq(method, ep, arg) ==
    [st |-> "pending", method |-> method, ep |-> ep, arg |-> arg,
     attempt |-> 0, ret |-> "none", resp |-> <<>>, applied |-> FALSE]

\* What one HTTP attempt can end in: 200 with a JSON body, with an empty
\* body, with a body that is no JSON; 403; 400/404/409; another 4xx (401);
\* 429 with a usable and with a malformed Retry-After; 5xx; a connection
\* error or timeout.
Outcomes == {"s200", "s200e", "s200bad", "s403", "s4xx", "s401",
             "s429", "s429bad", "s5xx", "conn"}
Success == {"s200", "s200e", "s200bad"}
\* The outcomes that carry an HTTP response.
Responses == Outcomes \ {"conn"}

\* Whether the catalog can answer the request with a 2xx: it creates no
\* classification whose name or display name exists, attaches only defined
\* classifications, and detaches only attached ones.
CanSucceed(r) ==
    CASE r.ep = "cls_create" ->
           \A i \in 1..Len(cat_classdefs) :
              /\ cat_classdefs[i].name # r.arg.name
              /\ cat_classdefs[i].displayName # r.arg.displayName
      [] r.ep = "cls_add" -> r.arg.tags \subseteq DefNames(cat_classdefs)
      [] r.ep = "cls_delete" -> r.arg.tag \in cat_tags[r.arg.guid]
      [] r.ep = "bm_create" ->
           \A i \in 1..Len(cat_bm) : cat_bm[i].displayName # r.arg.displayName
      [] r.ep = "bm_put" ->
           \E i \in 1..Len(cat_bm) : cat_bm[i].name = r.arg.name
      [] r.ep = "badge_write" ->
           r.arg.guid # <<>> =>
              \E i \in 1..Len(cat_badges) : cat_badges[i].guid = r.arg.guid
      [] OTHER -> TRUE

\* The answer that costs no fault: the 200, or the 4xx of a request the
\* catalog cannot apply.
Natural(r) == IF CanSucceed(r) THEN "s200" ELSE "s4xx"

\* A mutant of the counter: every response but a 403 resets it.
Counter403ResetByAny(c, o) ==
    IF o = "s403" THEN c + 1 ELSE IF o \in Responses THEN 0 ELSE c

\* A mutant of the counter: a 400/404/409 resets it as a 2xx does.
Counter403ResetOnClientError(c, o) ==
    IF o = "s403" THEN c + 1 ELSE IF o \in Success \cup {"s4xx"} THEN 0 ELSE c

\* A mutant of the counter: a 401 counts as a 403 does.
Counter403CountingUnauthorized(c, o) ==
    IF o \in {"s403", "s401"} THEN c + 1 ELSE IF o \in Success THEN 0 ELSE c

\* The consecutive-403 counter after an attempt that ended in o
\* (_request, the 403 branch and the line before the return of a 2xx).
Counter403After(c, o) ==
    IF o = "s403" THEN c + 1 ELSE IF o \in Success THEN 0 ELSE c

\* Whether _request returns after an attempt that ended in o, and what.
\* 429 and 5xx always go on to the next slot of the for loop; a connection
\* error does unless it was the last slot; the loop's end returns None.
\* A mutant of the retry loop: a 403 is retried like a 5xx.
AttemptReturnsRetrying403(attempt, o) ==
    CASE o \in {"s429", "s5xx", "s403"} -> attempt + 1 >= MAX_RETRIES
      [] o = "conn" -> ~(attempt < MAX_RETRIES - 1)
      [] OTHER -> TRUE

AttemptReturns(attempt, o) ==
    CASE o \in {"s429", "s5xx"} -> attempt + 1 >= MAX_RETRIES
      [] o = "conn" -> ~(attempt < MAX_RETRIES - 1)
      [] OTHER -> TRUE

\* A mutant of the loop: a 429 is retried in the slot it was received in.
NextSlotKeptOn429(attempt, o) == IF o = "s429" THEN attempt ELSE attempt + 1

\* The value of the loop variable after an attempt in slot attempt:
\* every continue of the body goes on to the next value of range(3).
NextSlot(attempt, o) == attempt + 1

\* The exception that the body of the try statement raises on an attempt
\* that ended in o: requests.request on a connection error or timeout,
\* int() on a Retry-After that is no number, raise_for_status on a 4xx that
\* no branch took, res.json() on a body that is no JSON.
Raised(o) ==
    CASE o = "conn" -> "ConnectionError"
      [] o = "s429bad" -> "ValueError"
      [] o = "s401" -> "HTTPError"
      [] o = "s200bad" -> "JSONDecodeError"
      [] OTHER -> "none"

\* A mutant of the handlers: the last except clause is missing.
CaughtByWithoutCatchAll(exc) ==
    CASE exc \in {"ConnectionError", "Timeout"} -> "connection"
      [] exc = "HTTPError" -> "http"
      [] OTHER -> "uncaught"

\* The except clause of _request that catches the exception.
CaughtBy(exc) ==
    CASE exc \in {"ConnectionError", "Timeout"} -> "connection"
      [] exc = "HTTPError" -> "http"
      [] OTHER -> "any"

\* What _request hands its caller when it returns after an attempt that
\* ended in o: the parsed body, {"status": "ok"}, None, or the exception
\* that no clause caught.
ReturnValue(o) ==
    CASE Raised(o) # "none" /\ CaughtBy(Raised(o)) = "uncaught" -> "raise"
      [] o = "s200" -> "json"
      [] o = "s200e" -> "ok"
      [] OTHER -> "none"

\* The name the catalog gives a created classification.
AssignedName(arg) ==
    IF cat_hashes THEN HashedName(arg.displayName) ELSE arg.name

\* The catalog after it applied the request.
ApplyClassDefs(r) ==
    IF r.ep = "cls_create"
    THEN Append(cat_classdefs,
                [name |-> AssignedName(r.arg), displayName |-> r.arg.displayName])
    ELSE cat_classdefs

ApplyTags(r) ==
    CASE r.ep = "cls_add" ->
           [cat_tags EXCEPT ![r.arg.guid] = @ \cup r.arg.tags]
      [] r.ep = "cls_delete" ->
           [cat_tags EXCEPT ![r.arg.guid] = @ \ {r.arg.tag}]
      [] OTHER -> cat_tags

\* The name the catalog gives a created business-metadata typedef or
\* attribute: a hash, never the requested one.
HashedBmAttr(a) == [a EXCEPT !.name = <<"#", a.displayName>>]

\* The attributes of a typedef after an update that sent the list sent: an
\* attribute sent under the name of one the typedef has replaces it, one
\* sent under a new name is added under a catalog-assigned name, and one the
\* list leaves out is kept, or dropped by a catalog that replaces the list.
MergedAttrs(current, sent) ==
    LET sentNames == {sent[i].name : i \in 1..Len(sent)}
        curNames == {current[i].name : i \in 1..Len(current)}
        upd(a) == IF a.name \in sentNames
                  THEN CHOOSE b \in Range(sent) : b.name = a.name
                  ELSE a
        kept == SelectSeq(current,
                          LAMBDA a : a.name \in sentNames \/ ~cat_replaces)
        added == SelectSeq(sent, LAMBDA a : a.name \notin curNames)
    IN  [i \in 1..Len(kept) |-> upd(kept[i])]
        \o [i \in 1..Len(added) |-> HashedBmAttr(added[i])]

\* The business-metadata typedefs after the catalog applied the request.
ApplyBm(r) ==
    CASE r.ep = "bm_create" ->
           Append(cat_bm,
                  [r.arg EXCEPT !.name = "cm1",
                                !.attributeDefs =
                                    [i \in 1..Len(r.arg.attributeDefs) |->
                                        HashedBmAttr(r.arg.attributeDefs[i])]])
      [] r.ep = "bm_put" ->
           [i \in 1..Len(cat_bm) |->
              IF cat_bm[i].name # r.arg.name THEN cat_bm[i]
              ELSE [cat_bm[i] EXCEPT
                      !.imageId = IF r.arg.options THEN r.arg.imageId ELSE @,
                      !.logoUrl = IF r.arg.options THEN r.arg.logoUrl ELSE @,
                      !.attributeDefs = MergedAttrs(@, r.arg.attributeDefs)]]
      [] OTHER -> cat_bm

\* The AuthPolicy entities after the catalog applied the request: an entity
\* sent under the qualified name of one the catalog has replaces it.
ApplyPolicies(r) ==
    IF r.ep # "policy_create" THEN cat_policies
    ELSE IF \E i \in 1..Len(cat_policies) :
               cat_policies[i].qualifiedName = r.arg.qualifiedName
    THEN [i \in 1..Len(cat_policies) |->
            IF cat_policies[i].qualifiedName = r.arg.qualifiedName
            THEN [name |-> r.arg.name, qualifiedName |-> r.arg.qualifiedName,
                  persona |-> r.arg.persona]
            ELSE cat_policies[i]]
    ELSE Append(cat_policies,
                [name |-> r.arg.name, qualifiedName |-> r.arg.qualifiedName,
                 persona |-> r.arg.persona])

\* The Badge entities after the catalog applied the request: an entity sent
\* with a GUID replaces the one that has it, one sent without replaces the
\* one of its qualified name or is added under a GUID of the catalog's.
ApplyBadges(r) ==
    IF r.ep # "badge_write" THEN cat_badges
    ELSE IF \/ r.arg.guid # <<>>
            \/ \E i \in 1..Len(cat_badges) :
                  cat_badges[i].qualifiedName = r.arg.qualifiedName
    THEN [i \in 1..Len(cat_badges) |->
            IF IF r.arg.guid # <<>> THEN cat_badges[i].guid = r.arg.guid
               ELSE cat_badges[i].qualifiedName = r.arg.qualifiedName
            THEN [cat_badges[i] EXCEPT !.name = r.arg.name,
                                       !.qualifiedName = r.arg.qualifiedName,
                                       !.conditions = r.arg.conditions]
            ELSE cat_badges[i]]
    ELSE Append(cat_badges,
                [guid |-> <<"b", Len(cat_badges) + 1>>, name |-> r.arg.name,
                 qualifiedName |-> r.arg.qualifiedName,
                 conditions |-> r.arg.conditions])

\* The entities the persona refers to (referredEntities): its policies.
ReferredNames(guid) ==
    SelectSeq(cat_policies, LAMBDA pol : pol.persona = guid)

\* The qualified names of the Connection entities of the catalog.
Connections == <<"default/snowflake/1">>

\* The body of a 200: what the catalog holds after the request.
ResponseBody(r) ==
    CASE r.ep = "cls_create" ->
           <<[name |-> AssignedName(r.arg), displayName |-> r.arg.displayName]>>
      [] r.ep = "cls_list" -> cat_classdefs
      [] r.ep = "entity_get" -> cat_tags[r.arg.guid]
      [] r.ep = "dom_search" -> cat_domains
      [] r.ep = "bm_list" -> cat_bm
      [] r.ep = "persona_search" -> cat_personas
      [] r.ep = "persona_get" -> ReferredNames(r.arg.guid)
      [] r.ep = "conn_search" -> Connections
      [] r.ep = "badge_search" -> cat_badges
      [] r.ep = "asset_search" -> cat_assets
      [] OTHER -> <<>>

\* One HTTP attempt of the request in flight, which ends in one of the
\* outcomes of O.
HttpAttemptOf(O) ==
    /\ req.st = "pending"
    /\ \E o \in O :
         /\ o \in Success => CanSucceed(req)
         /\ o # Natural(req) => faultsLeft > 0
         /\ faultsLeft' = IF o = Natural(req) THEN faultsLeft ELSE faultsLeft - 1
         /\ consecutive_403' = Counter403After(consecutive_403, o)
         /\ trail403' = IF o = "s403"
                        THEN (IF trail403 < ABORT_THRESHOLD THEN trail403 + 1
                              ELSE trail403)
                        ELSE IF o \in Responses THEN 0 ELSE trail403
         /\ tripped' = (tripped \/ consecutive_403' >= ABORT_THRESHOLD)
         /\ cat_classdefs' = IF o \in Success THEN ApplyClassDefs(req)
                             ELSE cat_classdefs
         /\ cat_tags' = IF o \in Success THEN ApplyTags(req) ELSE cat_tags
         /\ cat_bm' = IF o \in Success THEN ApplyBm(req) ELSE cat_bm
         /\ cat_policies' = IF o \in Success THEN ApplyPolicies(req)
                            ELSE cat_policies
         /\ cat_badges' = IF o \in Success THEN ApplyBadges(req)
                          ELSE cat_badges
         /\ req' = IF AttemptReturns(NextSlot(req.attempt, o) - 1, o)
                   THEN [req EXCEPT !.st = "done",
                                    !.attempt = NextSlot(@, o),
                                    !.ret = ReturnValue(o),
                                    !.resp = IF o = "s200" THEN ResponseBody(req)
                                             ELSE <<>>,
                                    !.applied = (o \in Success)]
                   ELSE [req EXCEPT !.attempt = NextSlot(@, o)]
         /\ calls' = IF req.attempt = 0 THEN calls + 1 ELSE calls
         /\ outs' = IF pc = "raw" THEN Append(outs, o) ELSE outs
         /\ since2xx' = IF o \in Success THEN 0
                         ELSE IF o = "s403" /\ since2xx < ABORT_THRESHOLD
                         THEN since2xx + 1
                         ELSE since2xx
    /\ UNCHANGED <<created_tags, tlx_tag_names, cat_hashes, pc, edt, syn,
                   opsLeft, prevSync, lastRet, tagvars, domvars, updvars, ud,
                   cat_replaces, emd, latekeeps>>

HttpAttempt == HttpAttemptOf(Outcomes)

\* An attempt at a catalog that answers every request, and may deny it.
DeniedOutcomes == {"s200", "s4xx", "s403"}
HttpAttemptDeniable == HttpAttemptOf(DeniedOutcomes)

\* AtlanClient._should_abort
ShouldAbort == consecutive_403 >= ABORT_THRESHOLD

(***************************************************************************)
(* Bare calls of _request (_get, _post, _put, _delete)                     *)
(***************************************************************************)
RequestBegin ==
    /\ pc = "idle"
    /\ opsLeft > 0
    /\ opsLeft' = opsLeft - 1
    /\ \E m \in {"GET", "POST", "PUT", "DELETE"} : req' = NewReq(m, "any", <<>>)
    /\ pc' = "raw"
    /\ outs' = <<>>
    /\ UNCHANGED <<clientvars, catvars, edt, syn, faultsLeft, trail403,
                   tripped, prevSync, lastRet, tagvars, domvars, updvars, ud,
                   schemavars, latevars, calls>>

RequestReturn ==
    /\ pc = "raw"
    /\ req.st = "done"
    /\ pc' = "idle"
    /\ req' = NoReq
    /\ lastRet' = [op |-> "_request", val |-> req.ret]
    /\ UNCHANGED <<clientvars, catvars, edt, syn, faultsLeft, opsLeft,
                   trail403, tripped, prevSync, sidevars, calls>>

(***************************************************************************)
(* Frames of the callees                                                   *)
(***************************************************************************)
NoEdt == [cat |-> <<>>, tag_id |-> <<>>, caller |-> "", result |-> <<>>,
          short |-> FALSE, posted |-> FALSE]
NoPrev == [valid |-> FALSE, guid |-> "", desired |-> {}, read_ok |-> FALSE,
           applied |-> FALSE, changed |-> FALSE]

\* The start of a top-level operation other than a tag sync: it takes one
\* operation of the budget, and the next sync does not follow a sync.
StartOp ==
    /\ opsLeft > 0
    /\ opsLeft' = opsLeft - 1
    /\ prevSync' = NoPrev

NoSyn == [guid |-> "", desired |-> {}, caller |-> "", pending |-> {},
          current_tlx |-> {}, to_add |-> {}, dels |-> {}, adds |-> {},
          ncalls |-> 0, read_ok |-> FALSE, applied |-> TRUE]

(***************************************************************************)
(* build_tlx_tag_registry                                                  *)
(***************************************************************************)
TrustLogixWord == <<"T","r","u","s","t","L","o","g","i","x">>
TlxWord == <<"T","L","X">>

\* The test of build_tlx_tag_registry on one classification typedef.
IsTlxDef(cdef) ==
    \/ StartsWith(cdef.name, TAG_PREFIX)
    \/ StartsWith(cdef.displayName, TrustLogixWord)
    \/ StartsWith(cdef.displayName, TlxWord)

\* The names build_tlx_tag_registry registers from the typedefs it read.
RegistryOf(defs) ==
    {defs[i].name : i \in {j \in 1..Len(defs) : IsTlxDef(defs[j])}}

\* build_tlx_tag_registry up to its GET.
BuildRegistryStart ==
    /\ tlx_tag_names' = {}
    /\ req' = NewReq("GET", "cls_list", <<>>)
    /\ pc' = "reg_get"
    /\ rebuilt' = (rebuilt \/ created_tags # {})

BuildRegistryBegin ==
    /\ pc = "idle"
    /\ BuildRegistryStart
    /\ StartOp
    /\ UNCHANGED <<created_tags, consecutive_403, catvars, edt, syn,
                   faultsLeft, trail403, tripped, lastRet, tagvars, domvars,
                   updvars, morekeeps, ensured, returned, calls>>

BuildRegistryAfterGet ==
    /\ pc = "reg_get"
    /\ req.st = "done"
    /\ LET defs == IF req.ret = "json" THEN req.resp ELSE <<>>
           found == RegistryOf(defs)
       IN  /\ tlx_tag_names' = tlx_tag_names \cup found
           /\ created_tags' = created_tags \cup found
    /\ pc' = "idle"
    /\ req' = NoReq
    /\ UNCHANGED <<consecutive_403, catvars, edt, syn, histvars, sidevars, calls>>

(***************************************************************************)
(* ensure_dynamic_tag                                                      *)
(***************************************************************************)
Contains(s, sub) ==
    \E i \in 1..(Len(s) - Len(sub) + 1) : SubSeq(s, i, i + Len(sub) - 1) = sub

RedKeywords ==
    { <<"c","r","i","t","i","c","a","l">>, <<"e","x","f","i","l","t","r","a","t">>,
      <<"b","r","e","a","c","h">>, <<"s","h","a","d","o","w">>, <<"h","i","g","h">> }

\* The colour of a created classification.
TagColor(category_name) ==
    IF \E kw \in RedKeywords : Contains(Lower(category_name), kw)
    THEN "Red" ELSE "Orange"

\* The index of the first typedef whose name is the tag id or whose display
\* name is the category name; 0 when there is none.
FirstMatch(defs, tag_id, category_name) ==
    LET hits == {i \in 1..Len(defs) :
                    defs[i].name = tag_id \/ defs[i].displayName = category_name}
    IN  IF hits = {} THEN 0 ELSE CHOOSE i \in hits : \A j \in hits : i <= j

\* A mutant of the registration: the registry is left as it is.
TlxNamesWithout(names, actual) == names

\* self._tlx_tag_names.add(actual)
TlxNamesWith(names, actual) == names \cup {actual}

\* The entry of ensure_dynamic_tag: the short circuit on _created_tags, else
\* the lookup.
EdtStart(category_name, caller) ==
    LET tag_id == MakeTagId(category_name)
    IN  IF tag_id \in created_tags
        THEN /\ edt' = [cat |-> category_name, tag_id |-> tag_id,
                        caller |-> caller, result |-> tag_id, short |-> TRUE,
                        posted |-> FALSE]
             /\ pc' = "edt_ret"
             /\ req' = NoReq
        ELSE /\ edt' = [cat |-> category_name, tag_id |-> tag_id,
                        caller |-> caller, result |-> <<>>, short |-> FALSE,
                        posted |-> FALSE]
             /\ pc' = "edt_get"
             /\ req' = NewReq("GET", "cls_list", <<>>)

EnsureDynamicTagBegin ==
    /\ pc = "idle"
    /\ \E c \in ScanCategories \cup {HighRiskName} : EdtStart(c, "top")
    /\ StartOp
    /\ UNCHANGED <<clientvars, catvars, syn, faultsLeft, trail403, tripped,
                   lastRet, sidevars, calls>>

EdtAfterGet ==
    /\ pc = "edt_get"
    /\ req.st = "done"
    /\ LET defs == IF req.ret = "json" THEN req.resp ELSE <<>>
           i == FirstMatch(defs, edt.tag_id, edt.cat)
       IN  IF req.ret # "none" /\ i # 0
           THEN /\ created_tags' = created_tags \cup {defs[i].name}
                /\ tlx_tag_names' = TlxNamesWith(tlx_tag_names, defs[i].name)
                /\ edt' = [edt EXCEPT !.result = defs[i].name]
                /\ pc' = "edt_ret"
                /\ req' = NoReq
           ELSE /\ req' = NewReq("POST", "cls_create",
                                 [name |-> edt.tag_id, displayName |-> edt.cat,
                                  color |-> TagColor(edt.cat)])
                /\ pc' = "edt_post"
                /\ UNCHANGED <<created_tags, tlx_tag_names, edt>>
    /\ UNCHANGED <<consecutive_403, catvars, syn, histvars, sidevars, calls>>

EdtAfterPost ==
    /\ pc = "edt_post"
    /\ req.st = "done"
    /\ LET actual == IF req.ret = "json" /\ Len(req.resp) > 0
                     THEN req.resp[1].name ELSE edt.tag_id
       IN  /\ created_tags' = created_tags \cup {actual}
           /\ tlx_tag_names' = TlxNamesWith(tlx_tag_names, actual)
           /\ edt' = [edt EXCEPT !.result = actual, !.posted = TRUE]
    /\ pc' = "edt_ret"
    /\ req' = NoReq
    /\ UNCHANGED <<consecutive_403, catvars, syn, histvars, sidevars, calls>>

EdtReturnTop ==
    /\ pc = "edt_ret"
    /\ edt.caller = "top"
    /\ pc' = "idle"
    /\ edt' = NoEdt
    /\ ensured' = ensured \cup {edt.cat}
    /\ returned' = returned \cup {<<edt.cat, edt.result, edt.posted>>}
    /\ UNCHANGED <<clientvars, catvars, syn, req, histvars, tagvars, domvars,
                   updvars, morekeeps, rebuilt, calls>>

(***************************************************************************)
(* _sync_tags_on_asset                                                     *)
(***************************************************************************)
\* A mutant of the filter: every classification of the asset counts as ours.
CurrentTlxUnscoped(classifications, registry) == classifications

\* The classifications of the asset that are in the registry (current_tlx).
CurrentTlx(classifications, registry) ==
    {t \in classifications : t \in registry}

\* A mutant of to_remove: every registry tag of the asset is removed.
ToRemoveAllCurrent(current_tlx, desired) == current_tlx

\* A mutant of to_remove: nothing is removed.
ToRemoveNone(current_tlx, desired) == {}

\* to_remove = current_tlx - desired_tag_names
ToRemove(current_tlx, desired) == current_tlx \ desired

\* A mutant of to_add: the tags already on the asset are added again.
ToAddAll(current_tlx, desired) == desired

\* to_add = desired_tag_names - current_tlx
ToAdd(current_tlx, desired) == desired \ current_tlx

SyncStart(guid, desired, caller) ==
    /\ syn' = [NoSyn EXCEPT !.guid = guid, !.desired = desired,
                            !.caller = caller, !.ncalls = 1]
    /\ req' = NewReq("GET", "entity_get", [guid |-> guid])
    /\ pc' = "sync_get"

\* Steps 2 and 3: one DELETE per stale tag, in the set's iteration order,
\* then one POST with all the tags to add.
SyncProceed(s, remaining) ==
    IF remaining # {}
    THEN \E t \in remaining :
           /\ req' = NewReq("DELETE", "cls_delete", [guid |-> s.guid, tag |-> t])
           /\ syn' = [s EXCEPT !.pending = remaining \ {t},
                               !.dels = @ \cup {t}, !.ncalls = @ + 1]
           /\ pc' = "sync_del"
    ELSE IF s.to_add # {}
    THEN /\ req' = NewReq("POST", "cls_add", [guid |-> s.guid, tags |-> s.to_add])
         /\ syn' = [s EXCEPT !.pending = {}, !.adds = s.to_add, !.ncalls = @ + 1]
         /\ pc' = "sync_add"
    ELSE /\ req' = NoReq
         /\ syn' = [s EXCEPT !.pending = {}]
         /\ pc' = "sync_ret"

SyncBegin ==
    /\ pc = "idle"
    /\ \E g \in Assets :
       \E d \in {x \in SUBSET (DefNames(cat_classdefs) \cup tlx_tag_names) :
                    Cardinality(x) <= MaxDesired} :
          SyncStart(g, d, "top")
    /\ opsLeft > 0
    /\ opsLeft' = opsLeft - 1
    /\ UNCHANGED <<clientvars, catvars, edt, faultsLeft, trail403, tripped,
                   prevSync, lastRet, sidevars, calls>>

SyncAfterGet ==
    /\ pc = "sync_get"
    /\ req.st = "done"
    /\ LET classifications == IF req.ret = "json" THEN req.resp ELSE {}
           current_tlx == CurrentTlx(classifications, tlx_tag_names)
           s == [syn EXCEPT !.current_tlx = current_tlx,
                            !.to_add = ToAdd(current_tlx, syn.desired),
                            !.read_ok = (req.ret = "json")]
       IN  SyncProceed(s, ToRemove(current_tlx, syn.desired))
    /\ UNCHANGED <<clientvars, catvars, edt, histvars, sidevars, calls>>

SyncAfterDel ==
    /\ pc = "sync_del"
    /\ req.st = "done"
    /\ SyncProceed([syn EXCEPT !.applied = @ /\ req.applied], syn.pending)
    /\ UNCHANGED <<clientvars, catvars, edt, histvars, sidevars, calls>>

SyncAfterAdd ==
    /\ pc = "sync_add"
    /\ req.st = "done"
    /\ syn' = [syn EXCEPT !.applied = @ /\ req.applied]
    /\ req' = NoReq
    /\ pc' = "sync_ret"
    /\ UNCHANGED <<clientvars, catvars, edt, histvars, sidevars, calls>>

\* What is remembered of a completed sync: its arguments, whether its read
\* returned the asset, whether the catalog applied every change it asked for,
\* and whether it asked for any.
SyncRecord(s) ==
    [valid |-> TRUE, guid |-> s.guid, desired |-> s.desired,
     read_ok |-> s.read_ok, applied |-> s.applied,
     changed |-> (s.dels # {} \/ s.adds # {})]

SyncReturnTop ==
    /\ pc = "sync_ret"
    /\ syn.caller = "top"
    /\ pc' = "idle"
    /\ syn' = NoSyn
    /\ prevSync' = SyncRecord(syn)
    /\ UNCHANGED <<clientvars, catvars, edt, req, faultsLeft, opsLeft,
                   trail403, tripped, lastRet, sidevars, calls>>

(***************************************************************************)
(* The tag operations of a client, from construction                       *)
(***************************************************************************)
InitClient ==
    /\ created_tags = {}
    /\ tlx_tag_names = {}
    /\ consecutive_403 = 0

InitControl ==
    /\ pc = "idle"
    /\ edt = NoEdt
    /\ syn = NoSyn
    /\ req = NoReq

\* The frame of update_domain: its argument, and the GUID and the qualified
\* name its loop found.
NoUd == [active |-> FALSE, domain_name |-> "", domain_guid |-> None,
         domain_qn |-> None]

\* The frame of ensure_metadata_def: its argument ("" for None), the
\* definition it found first (none, or one), the keys it found missing.
NoEmd == [active |-> FALSE, image_id |-> "", existing |-> <<>>,
          missing |-> <<>>]

\* The frame of ensure_metadata_policy: the persona it found.
NoEmp == [active |-> FALSE, persona_guid |-> None, persona_qn |-> <<>>]

\* The frame of ensure_badges: the badges it found, as the items of the dict
\* in insertion order, the badge definitions it has not come to, and the
\* names of those it sent a request for.
NoEbd == [active |-> FALSE, existing |-> <<>>, todo |-> <<>>, sent |-> <<>>]

\* The frame of main: the call it makes next (at), its locals, the accounts
\* it has not scanned, the databases and the entries it has not come to in
\* the account it scans, and, as history, the calls it made, in order,
\* whether its initialization block raised, and the number of calls it had
\* made when it first found the abort flag up (0 when it has not).
NoMain == [at |-> "off", atlan_enabled |-> FALSE, image_id |-> "",
           atlan_map |-> <<>>, accounts |-> <<>>, account |-> <<>>,
           dbs |-> <<>>, entries |-> <<>>, found_domains |-> <<>>,
           synced |-> 0, domain_groups |-> <<>>, final_report_data |-> <<>>,
           todo |-> <<>>, log |-> <<>>, init_failed |-> FALSE,
           abort_seen |-> 0]

\* No main runs: the operations are called one by one.
NoRun ==
    /\ cat_assets = <<>>
    /\ mn = NoMain

\* No response was received and no tag was ensured.
NoResponses ==
    /\ since2xx = 0
    /\ rebuilt = FALSE
    /\ ensured = {}
    /\ returned = {}

\* Nothing was provisioned and no response was received.
NoLate ==
    /\ NoResponses
    /\ NoRun
    /\ cat_personas = <<>>
    /\ cat_policies = <<>>
    /\ cat_badges = <<>>
    /\ emp = NoEmp
    /\ ebd = NoEbd

InitHistory ==
    /\ NoLate
    /\ trail403 = 0
    /\ tripped = FALSE
    /\ prevSync = NoPrev
    /\ lastRet = [op |-> "", val |-> None]
    /\ outs = <<>>
    /\ ud = NoUd
    /\ cat_bm = <<>>
    /\ cat_replaces = FALSE
    /\ emd = NoEmd

\* No domain resolution took place.
NoDomain ==
    /\ domain_guid_map = <<>>
    /\ cat_domains = <<>>
    /\ dom_in = [kind |-> "none", val |-> <<>>]
    /\ dom_out = None

\* The frame of update_asset: its arguments, _cm_internal_name and
\* _should_abort() as they were at entry, its locals, its return value.
NoUa == [guid |-> "", summary |-> <<>>, type_name |-> "", asset_name |-> "",
         qualified_name |-> "", entry_cm |-> None, entry_abort |-> FALSE,
         scan_status |-> <<>>, bm_values |-> <<>>, result |-> FALSE,
         rollup_cat |-> <<>>, rollup_tag |-> <<>>, todo |-> <<>>,
         desired |-> {}, ret |-> None]

\* No schema was resolved and no update runs.
NoUpdate ==
    /\ cm_internal_name = None
    /\ attr_names = <<>>
    /\ risk_summary = <<>>
    /\ ua = NoUa

\* No badge was shown: number is the value of a count, text that of a
\* status, rule the position of the rule that matched (0: none).
NoShown == [badge |-> "", number |-> 0, text |-> <<>>, rule |-> 0,
            colour |-> ""]

NoTagId ==
    /\ nameA = <<>>
    /\ nameB = <<>>
    /\ idA = <<>>
    /\ idB = <<>>
    /\ tpc = "off"
    /\ shown = NoShown

InitTags ==
    /\ InitClient
    /\ cat_classdefs \in InitClassDefs
    /\ cat_tags \in [Assets -> SUBSET DefNames(cat_classdefs)]
    /\ cat_hashes \in BOOLEAN
    /\ InitControl
    /\ InitHistory
    /\ faultsLeft = MaxTagFaults
    /\ opsLeft = MaxTagOps
    /\ NoTagId
    /\ NoDomain
    /\ NoUpdate
    /\ calls = 0

InitRequest ==
    /\ InitClient
    /\ cat_classdefs = <<>>
    /\ cat_tags = [g \in Assets |-> {}]
    /\ cat_hashes = TRUE
    /\ InitControl
    /\ InitHistory
    /\ faultsLeft = MaxReqFaults
    /\ opsLeft = MaxReqOps
    /\ NoTagId
    /\ NoDomain
    /\ NoUpdate
    /\ calls = 0

NextRequest ==
    \/ HttpAttempt
    \/ RequestBegin
    \/ RequestReturn

SpecRequest == InitRequest /\ [][NextRequest]_vars

\* Every HTTP attempt ends: requests.request runs under _TIMEOUT and the
\* sleeps of the loop are finite.
SpecRequestFair == SpecRequest /\ WF_vars(HttpAttempt)

InitSync ==
    /\ InitClient
    /\ cat_classdefs \in InitClassDefs
    /\ cat_tags \in [Assets -> SUBSET DefNames(cat_classdefs)]
    /\ cat_hashes = TRUE
    /\ InitControl
    /\ InitHistory
    /\ faultsLeft = MaxSyncFaults
    /\ opsLeft = MaxSyncOps
    /\ NoTagId
    /\ NoDomain
    /\ NoUpdate
    /\ calls = 0

NextSync ==
    \/ HttpAttempt
    \/ BuildRegistryBegin
    \/ BuildRegistryAfterGet
    \/ SyncBegin
    \/ SyncAfterGet
    \/ SyncAfterDel
    \/ SyncAfterAdd
    \/ SyncReturnTop

SpecSync == InitSync /\ [][NextSync]_vars

NextTags ==
    \/ HttpAttempt
    \/ BuildRegistryBegin
    \/ BuildRegistryAfterGet
    \/ EnsureDynamicTagBegin
    \/ EdtAfterGet
    \/ EdtAfterPost
    \/ EdtReturnTop
    \/ SyncBegin
    \/ SyncAfterGet
    \/ SyncAfterDel
    \/ SyncAfterAdd
    \/ SyncReturnTop

SpecTags == InitTags /\ [][NextTags]_vars

\* The registry scan and the calls of ensure_dynamic_tag, in any order, from
\* the client's construction.
InitRegistry ==
    /\ InitClient
    /\ cat_classdefs \in InitClassDefs
    /\ cat_tags = [g \in Assets |-> {}]
    /\ cat_hashes \in BOOLEAN
    /\ InitControl
    /\ InitHistory
    /\ faultsLeft = MaxTagFaults
    /\ opsLeft = MaxTagOps
    /\ NoTagId
    /\ NoDomain
    /\ NoUpdate
    /\ calls = 0

NextRegistry ==
    \/ HttpAttempt
    \/ BuildRegistryBegin
    \/ BuildRegistryAfterGet
    \/ EnsureDynamicTagBegin
    \/ EdtAfterGet
    \/ EdtAfterPost
    \/ EdtReturnTop

SpecRegistry == InitRegistry /\ [][NextRegistry]_vars

(***************************************************************************)
(* The tag operations against a catalog that holds a namesake              *)
(***************************************************************************)
\* A classification of another system whose display name is a category name
\* of the scanner; its name carries no prefix of this system.
NamesakeTag == <<"P","I","I">>
NamesakeDef == [name |-> NamesakeTag, displayName |-> CatPii]

\* The classifications of the catalog that this system did not create.
UnrelatedDefs == {ForeignDef, NamesakeDef}

NamesakeClassDefs ==
    { <<NamesakeDef>>,
      <<ForeignDef, NamesakeDef>>,
      <<NamesakeDef, StaleDef>>,
      <<HashedHighRiskDef, ForeignDef, NamesakeDef>> }

InitNamesake ==
    /\ InitClient
    /\ cat_classdefs \in NamesakeClassDefs
    /\ cat_tags = [g \in Assets |-> {}]
    /\ cat_hashes \in BOOLEAN
    /\ InitControl
    /\ InitHistory
    /\ faultsLeft = MaxNamesakeFaults
    /\ opsLeft = MaxTagOps
    /\ NoTagId
    /\ NoDomain
    /\ NoUpdate
    /\ calls = 0

SpecNamesake == InitNamesake /\ [][NextRegistry]_vars

(***************************************************************************)
(* _make_tag_id on a pair of category names                                *)
(***************************************************************************)
InitTagId ==
    /\ nameA \in StrUpTo(MaxLen)
    /\ nameB \in StrUpTo(MaxLen)
    /\ idA = <<>>
    /\ idB = <<>>
    /\ tpc = "start"
    /\ shown = NoShown
    /\ InitClient
    /\ cat_classdefs = <<>>
    /\ cat_tags = [g \in Assets |-> {}]
    /\ cat_hashes = TRUE
    /\ InitControl
    /\ InitHistory
    /\ faultsLeft = 0
    /\ opsLeft = 0
    /\ NoDomain
    /\ NoUpdate
    /\ calls = 0

ComputeTagIds ==
    /\ tpc = "start"
    /\ idA' = MakeTagId(nameA)
    /\ idB' = MakeTagId(nameB)
    /\ tpc' = "done"
    /\ UNCHANGED <<nameA, nameB, shown, clientvars, catvars, ctlvars,
                   histvars, domvars, updvars, morevars, calls>>

NextTagId == ComputeTagIds

SpecTagId == InitTagId /\ [][NextTagId]_vars

(***************************************************************************)
(* _build_domain_guid_map and _resolve_domain_from_guids                   *)
(***************************************************************************)
Unassigned == "Unassigned"

Guids == {"ga", "gb", "gx"}

\* The DataDomain entities a search may return: two domains, a second entity
\* under the GUID of the first, one without a name, one without a GUID.
DomainEntities ==
    { [guid |-> "ga", name |-> "Finance", qualifiedName |-> "d/fin"],
      [guid |-> "gb", name |-> "Ops", qualifiedName |-> "d/ops"],
      [guid |-> "ga", name |-> "Legal", qualifiedName |-> ""],
      [guid |-> "gb", name |-> "", qualifiedName |-> "d/none"],
      [guid |-> "", name |-> "Ghost", qualifiedName |-> "d/ghost"] }

SeqUpTo(S, n) == UNION {[1..k -> S] : k \in 0..n}

\* The values of the domainGUIDs attribute: absent, a string, a list.
DomainInputs ==
    {[kind |-> "none", val |-> <<>>]}
    \cup {[kind |-> "str", val |-> <<g>>] : g \in Guids \cup {""}}
    \cup {[kind |-> "list", val |-> l] : l \in SeqUpTo(Guids, MaxGuids)}

\* A Python dict as the sequence of its items in insertion order.
DictKeys(m) == {m[i].guid : i \in 1..Len(m)}

DictGet(m, guid) == LET i == CHOOSE j \in 1..Len(m) : m[j].guid = guid IN m[i]

\* m[guid] = item: a key the dict holds keeps its place.
DictSet(m, item) ==
    IF item.guid \in DictKeys(m)
    THEN [i \in 1..Len(m) |-> IF m[i].guid = item.guid THEN item ELSE m[i]]
    ELSE Append(m, item)

\* The loop of _build_domain_guid_map over the entities of the response.
RECURSIVE AddDomainEntities(_, _)
AddDomainEntities(m, entities) ==
    IF entities = <<>> THEN m
    ELSE LET ent == Head(entities)
         IN  AddDomainEntities(
                 IF ent.guid # "" /\ ent.name # "" THEN DictSet(m, ent) ELSE m,
                 Tail(entities))

\* _build_domain_guid_map up to its search.
BuildDomainGuidMapStart ==
    /\ domain_guid_map' = <<>>
    /\ req' = NewReq("POST", "dom_search", <<>>)
    /\ pc' = "dom_search"

BuildDomainGuidMapBegin ==
    /\ pc = "idle"
    /\ BuildDomainGuidMapStart
    /\ StartOp
    /\ UNCHANGED <<clientvars, catvars, edt, syn, faultsLeft, trail403, tripped,
                   lastRet, tagvars, cat_domains, dom_in, dom_out, updvars, morevars,
                   calls>>

BuildDomainGuidMapAfterSearch ==
    /\ pc = "dom_search"
    /\ req.st = "done"
    /\ domain_guid_map' =
           IF req.ret = "json" THEN AddDomainEntities(domain_guid_map, req.resp)
           ELSE domain_guid_map
    /\ pc' = "idle"
    /\ req' = NoReq
    /\ UNCHANGED <<clientvars, catvars, edt, syn, histvars, tagvars,
                   cat_domains, dom_in, dom_out, updvars, morevars, calls>>

\* A mutant of the resolution: only the first GUID is looked up.
ResolveFirstGuidOnly(m, domain_guids) ==
    IF domain_guids.val = <<>> \/ domain_guids.val[1] \notin DictKeys(m)
    THEN Unassigned
    ELSE DictGet(m, domain_guids.val[1]).name

\* A mutant of the resolution: the index is walked, not the list.
RECURSIVE ResolveByIndexOrder(_, _)
ResolveByIndexOrder(m, domain_guids) ==
    IF m = <<>> THEN Unassigned
    ELSE IF \E i \in 1..Len(domain_guids.val) : domain_guids.val[i] = Head(m).guid
         THEN Head(m).name
         ELSE ResolveByIndexOrder(Tail(m), domain_guids)

\* The for loop of _resolve_domain_from_guids.
RECURSIVE FirstResolved(_, _)
FirstResolved(m, guids) ==
    IF guids = <<>> THEN Unassigned
    ELSE IF Head(guids) \in DictKeys(m) THEN DictGet(m, Head(guids)).name
    ELSE FirstResolved(m, Tail(guids))

\* Python's "not domain_guids": None, the empty string, the empty list.
Falsy(domain_guids) ==
    \/ domain_guids.kind = "none"
    \/ domain_guids.kind = "str" /\ domain_guids.val = <<"">>
    \/ domain_guids.kind = "list" /\ domain_guids.val = <<>>

\* _resolve_domain_from_guids; a string is held as the list it is wrapped in.
ResolveDomainFromGuids(m, domain_guids) ==
    IF Falsy(domain_guids) THEN Unassigned
    ELSE FirstResolved(m, domain_guids.val)

ResolveDomain ==
    /\ pc = "idle"
    /\ opsLeft > 0
    /\ opsLeft' = opsLeft - 1
    /\ \E d \in DomainInputs :
         /\ dom_in' = d
         /\ dom_out' = ResolveDomainFromGuids(domain_guid_map, d)
    /\ UNCHANGED <<clientvars, catvars, ctlvars, faultsLeft, trail403, tripped,
                   prevSync, lastRet, tagvars, domain_guid_map, cat_domains,
                   updvars, morevars, calls>>

InitDomain ==
    /\ InitClient
    /\ cat_classdefs = <<>>
    /\ cat_tags = [g \in Assets |-> {}]
    /\ cat_hashes = TRUE
    /\ InitControl
    /\ InitHistory
    /\ faultsLeft = MaxDomFaults
    /\ opsLeft = MaxDomOps
    /\ NoTagId
    /\ domain_guid_map = <<>>
    /\ cat_domains \in SeqUpTo(DomainEntities, MaxDomains)
    /\ dom_in = [kind |-> "none", val |-> <<>>]
    /\ dom_out = None
    /\ NoUpdate
    /\ calls = 0

\* get_asset_map builds the index before it resolves the first asset.
NextDomain ==
    \/ HttpAttempt
    \/ (dom_out = None /\ BuildDomainGuidMapBegin)
    \/ BuildDomainGuidMapAfterSearch
    \/ ResolveDomain

SpecDomain == InitDomain /\ [][NextDomain]_vars

(***************************************************************************)
(* Risk summaries (TrustLogixClient._summarize)                            *)
(***************************************************************************)
SevHigh == <<"H","I","G","H">>
SevCritical == <<"C","R","I","T","I","C","A","L">>
SevMedium == <<"M","E","D","I","U","M">>
SevLow == <<"L","O","W">>

\* The findings of a scan: a high and a critical one of one category, a
\* medium and a low one of another.
FindingKinds ==
    { [severity |-> SevHigh, category |-> CatPii],
      [severity |-> SevCritical, category |-> CatPii],
      [severity |-> SevMedium, category |-> CatStale],
      [severity |-> SevLow, category |-> CatStale] }

\* summary['categories'][cat] = summary['categories'].get(cat, 0) + 1, on a
\* dict held as the sequence of its items in insertion order.
CountCategory(cats, cat) ==
    IF \E i \in 1..Len(cats) : cats[i].cat = cat
    THEN [i \in 1..Len(cats) |->
            IF cats[i].cat = cat THEN [cats[i] EXCEPT !.count = @ + 1]
            ELSE cats[i]]
    ELSE Append(cats, [cat |-> cat, count |-> 1])

RECURSIVE SummarizeFrom(_, _)
SummarizeFrom(summary, risks) ==
    IF risks = <<>> THEN summary
    ELSE LET r == Head(risks)
             sev == r.severity
             counted ==
                 IF Contains(sev, SevHigh) \/ Contains(sev, SevCritical)
                 THEN [summary EXCEPT !.high = @ + 1]
                 ELSE IF Contains(sev, SevMedium)
                 THEN [summary EXCEPT !.medium = @ + 1]
                 ELSE [summary EXCEPT !.low = @ + 1]
         IN  SummarizeFrom(
                 [counted EXCEPT !.categories = CountCategory(@, r.category)],
                 Tail(risks))

\* A mutant of the summary: the total is not taken from the list.
SummarizeWithoutTotal(risks) ==
    SummarizeFrom([total |-> 0, high |-> 0, medium |-> 0, low |-> 0,
                   categories |-> <<>>], risks)

Summarize(risks) ==
    SummarizeFrom([total |-> Len(risks), high |-> 0, medium |-> 0, low |-> 0,
                   categories |-> <<>>], risks)

\* The summaries of the scans of at most MaxFindings findings.
Summaries == {Summarize(r) : r \in SeqUpTo(FindingKinds, MaxFindings)}

(***************************************************************************)
(* The schema state update_asset starts from (_resolve_attr_names)         *)
(***************************************************************************)
\* AtlanClient.ATTR_DEFS: simple key and display name, in order.
ATTR_DEFS ==
    << [key |-> "total_risks", display |-> "Total Risks"],
       [key |-> "high_severity", display |-> "High Severity"],
       [key |-> "medium_severity", display |-> "Medium Severity"],
       [key |-> "low_severity", display |-> "Low Severity"],
       [key |-> "risk_categories", display |-> "Risk Categories"],
       [key |-> "last_scanned", display |-> "Last Scanned"],
       [key |-> "scan_status", display |-> "Scan Status"],
       [key |-> "risk_details", display |-> "Risk Details"] >>

\* An attribute of a business-metadata definition of the catalog, under a
\* catalog-assigned name.
BmAttr(display, archived) ==
    [name |-> <<"#", display>>, displayName |-> display, archived |-> archived]

\* The definitions ensure_metadata_def may end with: all eight attributes;
\* the three of the first release; the three with Scan Status, one archived;
\* archived attributes only.
BmDefs ==
    { [name |-> "cm1",
       attributeDefs |-> [i \in 1..Len(ATTR_DEFS) |->
                             BmAttr(ATTR_DEFS[i].display, FALSE)]],
      [name |-> "cm1",
       attributeDefs |-> << BmAttr("Total Risks", FALSE),
                            BmAttr("High Severity", FALSE),
                            BmAttr("Risk Details", FALSE) >>],
      [name |-> "cm1",
       attributeDefs |-> << BmAttr("Total Risks", TRUE),
                            BmAttr("Scan Status", FALSE),
                            BmAttr("total risks", FALSE) >>],
      [name |-> "cm1",
       attributeDefs |-> << BmAttr("Total Risks", TRUE) >>] }

\* A mutant of display_to_hashed: archived attributes are not skipped.
DisplayToHashedArchivedToo(attributeDefs, display) ==
    LET hits == {i \in 1..Len(attributeDefs) :
                    attributeDefs[i].displayName = display}
    IN  IF hits = {} THEN <<>>
        ELSE attributeDefs[CHOOSE i \in hits : \A j \in hits : j <= i].name

\* display_to_hashed of _resolve_attr_names: the last attribute of a display
\* name that is not archived; <<>> when there is none.
DisplayToHashed(attributeDefs, display) ==
    LET hits == {i \in 1..Len(attributeDefs) :
                    /\ attributeDefs[i].displayName = display
                    /\ ~attributeDefs[i].archived}
    IN  IF hits = {} THEN <<>>
        ELSE attributeDefs[CHOOSE i \in hits : \A j \in hits : j <= i].name

ResolveAttrNames(bm_def) ==
    LET resolved == {i \in 1..Len(ATTR_DEFS) :
                        DisplayToHashed(bm_def.attributeDefs,
                                        ATTR_DEFS[i].display) # <<>>}
    IN  [k \in {ATTR_DEFS[i].key : i \in resolved} |->
            DisplayToHashed(bm_def.attributeDefs,
                            (CHOOSE d \in {ATTR_DEFS[i] : i \in resolved} :
                                 d.key = k).display)]

\* _cm_internal_name and _attr_names after ensure_metadata_def: no definition
\* found or created, or the names resolved from the definition found.
SchemaStates ==
    {[cm |-> None, attrs |-> <<>>]}
    \cup {[cm |-> d.name, attrs |-> ResolveAttrNames(d)] : d \in BmDefs}

(***************************************************************************)
(* update_asset and _set_announcement                                      *)
(***************************************************************************)
\* str(n) of the counts.
NumStr(n) == <<"0", "1", "2", "3", "4", "5", "6", "7", "8", "9">>[n + 1]

\* The texts are held as the sequences of their words; "(warning)" and
\* "(check)" stand for the two signs.
VerifiedStatus ==
    <<"(check)", "TrustLogix", "Data", "Access", "Governance", "Verified">>

\* A mutant of the status: the severity-weighted text from two high risks on.
ScanStatusFromTwo(summary) ==
    IF summary.total > 0
    THEN IF summary.high > 1
         THEN <<"(warning)", NumStr(summary.high), "High", "|",
                NumStr(summary.medium), "Med", "|", NumStr(summary.low), "Low">>
         ELSE <<NumStr(summary.total),
                IF summary.total # 1 THEN "Risks" ELSE "Risk", "Found">>
    ELSE VerifiedStatus

\* scan_status
ScanStatus(summary) ==
    IF summary.total > 0
    THEN IF summary.high > 0
         THEN <<"(warning)", NumStr(summary.high), "High", "|",
                NumStr(summary.medium), "Med", "|", NumStr(summary.low), "Low">>
         ELSE <<NumStr(summary.total),
                IF summary.total # 1 THEN "Risks" ELSE "Risk", "Found">>
    ELSE VerifiedStatus

\* The categories of positive count, in the order of the dict.
PositiveCategories(cats) == SelectSeq(cats, LAMBDA c : c.count > 0)

\* risk_text: one line per category of positive count.
RiskText(summary) ==
    IF summary.total > 0
    THEN IF PositiveCategories(summary.categories) # <<>>
         THEN [i \in 1..Len(PositiveCategories(summary.categories)) |->
                 <<PositiveCategories(summary.categories)[i].cat,
                   NumStr(PositiveCategories(summary.categories)[i].count)>>]
         ELSE <<"Risks detected">>
    ELSE <<"No risks detected. TrustLogix data access governance verified.">>

\* categories_text: the keys of the dict, or "None".
CategoriesText(summary) ==
    IF summary.categories # <<>>
    THEN [i \in 1..Len(summary.categories) |-> summary.categories[i].cat]
    ELSE <<"None">>

\* attr_data, by simple key.
AttrData(summary, now) ==
    [key \in {ATTR_DEFS[i].key : i \in 1..Len(ATTR_DEFS)} |->
        CASE key = "total_risks" -> summary.total
          [] key = "high_severity" -> summary.high
          [] key = "medium_severity" -> summary.medium
          [] key = "low_severity" -> summary.low
          [] key = "risk_categories" -> CategoriesText(summary)
          [] key = "last_scanned" -> now
          [] key = "scan_status" -> ScanStatus(summary)
          [] key = "risk_details" -> RiskText(summary)]

\* A mutant of the payload: every key is written, an unmapped one under the
\* name the catalog would have given it.
BmValuesUnfiltered(names, attr_data) ==
    [h \in {<<"#", ATTR_DEFS[i].display>> : i \in 1..Len(ATTR_DEFS)} |->
        attr_data[(CHOOSE d \in Range(ATTR_DEFS) : <<"#", d.display>> = h).key]]

\* bm_values: the values of the resolved keys, by internal name.
BmValues(names, attr_data) ==
    [h \in {names[k] : k \in DOMAIN names} |->
        attr_data[CHOOSE k \in DOMAIN names : names[k] = h]]

\* A mutant of the selection: any risk selects the risks-detected tag.
RollupCategoryTotalFirst(summary) ==
    IF summary.total > 0 THEN RisksDetectedName
    ELSE IF summary.high > 0 THEN HighRiskName
    ELSE VerifiedName

\* The category name ensure_rollup_tag gives to ensure_dynamic_tag.
RollupCategory(summary) ==
    IF summary.high > 0 THEN HighRiskName
    ELSE IF summary.total > 0 THEN RisksDetectedName
    ELSE VerifiedName

\* A mutant of the loop: a tag is also ensured for the high-risk rollup.
CategoryTodoWithHighRisk(summary) ==
    IF summary.total > 0
    THEN [i \in 1..Len(PositiveCategories(summary.categories)) |->
            PositiveCategories(summary.categories)[i].cat] \o <<HighRiskName>>
    ELSE <<>>

\* The categories update_asset ensures a tag for, in order.
CategoryTodo(summary) ==
    IF summary.total > 0
    THEN [i \in 1..Len(PositiveCategories(summary.categories)) |->
            PositiveCategories(summary.categories)[i].cat]
    ELSE <<>>

\* The "Categories: ..." line of the announcement, when the dict is not empty.
CategoryLine(summary) ==
    IF summary.categories # <<>>
    THEN << <<"Categories:">> \o
            [i \in 1..Len(PositiveCategories(summary.categories)) |->
                PositiveCategories(summary.categories)[i]] >>
    ELSE <<>>

\* announcementType, announcementTitle and the lines of announcementMessage.
Announcement(summary, timestamp) ==
    IF summary.high > 0
    THEN [type |-> "issue",
          title |-> <<"TrustLogix:", NumStr(summary.high), "High", "Severity",
                      IF summary.high # 1 THEN "Risks" ELSE "Risk", "Detected">>,
          message |->
              << <<"(warning)", NumStr(summary.total), "total",
                   IF summary.total # 1 THEN "risks:" ELSE "risk:",
                   NumStr(summary.high), "high,", NumStr(summary.medium),
                   "medium,", NumStr(summary.low), "low">> >>
              \o CategoryLine(summary)
              \o << <<"Last scanned:", timestamp>> >>]
    ELSE IF summary.total > 0
    THEN [type |-> "warning",
          title |-> <<"TrustLogix:", NumStr(summary.total),
                      IF summary.total # 1 THEN "Risks" ELSE "Risk", "Detected">>,
          message |->
              << <<NumStr(summary.medium), "medium,", NumStr(summary.low),
                   "low", "severity">> >>
              \o CategoryLine(summary)
              \o << <<"Last scanned:", timestamp>> >>]
    ELSE [type |-> "information",
          title |-> <<"TrustLogix:", "Data", "Access", "Governance", "Verified">>,
          message |->
              << <<"No security risks detected. Data access governance verified.",
                   "Last scanned:", timestamp>> >>]

\* The formatted time of the call.
Now == "now"

\* The names and qualified names of the assets of the index: get_asset_map
\* keeps an entity that has none.
AssetEntries ==
    { [name |-> "orders", qualifiedName |-> "db/orders"],
      [name |-> "orders", qualifiedName |-> ""],
      [name |-> "", qualifiedName |-> "db/orders"] }

\* A mutant of the entry test: the abort flag is not looked at.
UaEntryRefusedNoAbort(cm, abort) == cm = None

\* The two tests at the entry of update_asset.
UaEntryRefused(cm, abort) == cm = None \/ abort

\* update_asset from its entry to the attribute write.
UaStartWith(sm, guid, type_name, asset_name, qualified_name) ==
    LET u == [NoUa EXCEPT !.guid = guid, !.summary = sm,
                          !.type_name = type_name,
                          !.asset_name = asset_name,
                          !.qualified_name = qualified_name,
                          !.entry_cm = cm_internal_name,
                          !.entry_abort = ShouldAbort,
                          !.scan_status = ScanStatus(sm)]
        bm_values == BmValues(attr_names, AttrData(sm, Now))
    IN  IF UaEntryRefused(cm_internal_name, ShouldAbort)
           \/ DOMAIN bm_values = {}
        THEN /\ ua' = [u EXCEPT !.ret = "False"]
             /\ pc' = "ua_ret"
             /\ req' = NoReq
        ELSE /\ ua' = [u EXCEPT !.bm_values = bm_values]
             /\ pc' = "ua_bm"
             /\ req' = NewReq("POST", "bm_write",
                              [guid |-> guid, cm |-> cm_internal_name,
                               values |-> bm_values])

\* update_asset called with the summary of the scanned account.
UaStart(guid, type_name, asset_name, qualified_name) ==
    UaStartWith(risk_summary, guid, type_name, asset_name, qualified_name)

UpdateAssetBegin ==
    /\ pc = "idle"
    /\ opsLeft > 0
    /\ opsLeft' = opsLeft - 1
    /\ prevSync' = NoPrev
    /\ calls' = 0
    /\ \E g \in Assets, entry \in AssetEntries :
         UaStart(g, "Table", entry.name, entry.qualifiedName)
    /\ UNCHANGED <<clientvars, catvars, edt, syn, faultsLeft, trail403, tripped,
                   lastRet, tagvars, domvars, runvars, morevars>>

\* After the attribute write: the second test of the abort flag, then the
\* rollup tag.
\* A mutant of the tests after the write: its result is not looked at.
UaStopsAfterBmOnAbortOnly(abort, ret) == abort

\* Whether update_asset does nothing more after the attribute write: the
\* abort flag returns at once, and the tag step and the announcement step
\* are both under "if result is not None".
UaStopsAfterBm(abort, ret) == abort \/ ret = "none"

UaAfterBm ==
    /\ pc = "ua_bm"
    /\ req.st = "done"
    /\ IF UaStopsAfterBm(ShouldAbort, req.ret)
       THEN /\ ua' = [ua EXCEPT !.result = (req.ret # "none"), !.ret = "False"]
            /\ pc' = "ua_ret"
            /\ req' = NoReq
            /\ edt' = edt
       ELSE /\ ua' = [ua EXCEPT !.result = TRUE,
                                !.rollup_cat = RollupCategory(ua.summary)]
            /\ EdtStart(RollupCategory(ua.summary), "ua_rollup")
    /\ UNCHANGED <<clientvars, catvars, syn, histvars, tagvars, domvars,
                   runvars, morevars, calls>>

\* The loop over the categories, then the tag sync.
UaProceed(u) ==
    IF u.todo # <<>>
    THEN /\ EdtStart(Head(u.todo), "ua_cat")
         /\ ua' = [u EXCEPT !.todo = Tail(@)]
         /\ syn' = syn
    ELSE /\ SyncStart(u.guid, u.desired, "ua")
         /\ ua' = u
         /\ edt' = NoEdt

UaAfterRollup ==
    /\ pc = "edt_ret"
    /\ edt.caller = "ua_rollup"
    /\ UaProceed([ua EXCEPT !.rollup_tag = edt.result,
                            !.desired = IF edt.result # <<>> THEN {edt.result}
                                        ELSE {},
                            !.todo = CategoryTodo(ua.summary)])
    /\ ensured' = ensured \cup {edt.cat}
    /\ returned' = returned \cup {<<edt.cat, edt.result, edt.posted>>}
    /\ UNCHANGED <<clientvars, catvars, histvars, tagvars, domvars,
                   runvars, morekeeps, rebuilt, calls>>

UaAfterCategory ==
    /\ pc = "edt_ret"
    /\ edt.caller = "ua_cat"
    /\ UaProceed([ua EXCEPT !.desired = IF edt.result # <<>>
                                        THEN @ \cup {edt.result} ELSE @])
    /\ ensured' = ensured \cup {edt.cat}
    /\ returned' = returned \cup {<<edt.cat, edt.result, edt.posted>>}
    /\ UNCHANGED <<clientvars, catvars, histvars, tagvars, domvars,
                   runvars, morekeeps, rebuilt, calls>>

\* A mutant of the test: the display name is not looked at.
AnnouncementSkippedOnQualifiedName(asset_name, qualified_name) ==
    qualified_name = ""

\* "if not qualified_name or not asset_name" of _set_announcement.
AnnouncementSkipped(asset_name, qualified_name) ==
    qualified_name = "" \/ asset_name = ""

\* After the tag sync: _set_announcement, which needs both names.
\* A mutant of the return value: False when the last step did not succeed.
UaReturnsLastStep(result, step_ok) ==
    IF result /\ step_ok THEN "True" ELSE "False"

\* return result is not None, after the tag step and the announcement;
\* step_ok is whether the last call update_asset made returned a value.
UaReturns(result, step_ok) == IF result THEN "True" ELSE "False"

UaAfterSync ==
    /\ pc = "sync_ret"
    /\ syn.caller = "ua"
    /\ syn' = NoSyn
    /\ IF AnnouncementSkipped(ua.asset_name, ua.qualified_name)
       THEN /\ ua' = [ua EXCEPT !.ret = UaReturns(ua.result,
                                                  syn.read_ok /\ syn.applied)]
            /\ pc' = "ua_ret"
            /\ req' = NoReq
       ELSE /\ ua' = ua
            /\ pc' = "ua_ann"
            /\ req' = NewReq("POST", "announce",
                             [guid |-> ua.guid, typeName |-> ua.type_name,
                              name |-> ua.asset_name,
                              qualifiedName |-> ua.qualified_name,
                              announcement |-> Announcement(ua.summary, Now)])
    /\ UNCHANGED <<clientvars, catvars, edt, histvars, tagvars, domvars,
                   runvars, morevars, calls>>

UaAfterAnnouncement ==
    /\ pc = "ua_ann"
    /\ req.st = "done"
    /\ ua' = [ua EXCEPT !.ret = UaReturns(ua.result, req.ret # "none")]
    /\ pc' = "ua_ret"
    /\ req' = NoReq
    /\ UNCHANGED <<clientvars, catvars, edt, syn, histvars, tagvars, domvars,
                   runvars, morevars, calls>>

UpdateAssetReturn ==
    /\ pc = "ua_ret"
    /\ ~ud.active
    /\ lastRet' = [op |-> "update_asset", val |-> ua.ret]
    /\ pc' = "idle"
    /\ ua' = NoUa
    /\ UNCHANGED <<clientvars, catvars, edt, syn, req, faultsLeft, opsLeft,
                   trail403, tripped, prevSync, tagvars, domvars,
                   runvars, morevars, calls>>

\* The catalog when the updates start: nothing of this system, or the tags
\* of an earlier run, which are on the asset.
UpdCatalogs ==
    { [classdefs |-> <<ForeignDef>>, tags |-> {ForeignTag}],
      [classdefs |-> <<HashedHighRiskDef, ForeignDef, StaleDef>>,
       tags |-> {HashedName(HighRiskName), ForeignTag, MakeTagId(CatStale)}] }

\* The client after initialization: the schema state of ensure_metadata_def,
\* and the registry build_tlx_tag_registry read from the catalog.
InitUpdate ==
    /\ consecutive_403 = 0
    /\ \E c \in UpdCatalogs :
         /\ cat_classdefs = c.classdefs
         /\ cat_tags = [g \in Assets |-> c.tags]
    /\ cat_hashes = TRUE
    /\ tlx_tag_names = RegistryOf(cat_classdefs)
    /\ created_tags = tlx_tag_names
    /\ InitControl
    /\ InitHistory
    /\ faultsLeft = MaxUpdFaults
    /\ opsLeft = MaxUpdates
    /\ NoTagId
    /\ NoDomain
    /\ \E sch \in SchemaStates :
         /\ cm_internal_name = sch.cm
         /\ attr_names = sch.attrs
    /\ risk_summary \in Summaries
    /\ ua = NoUa
    /\ calls = 0

NextUpdate ==
    \/ HttpAttempt
    \/ UpdateAssetBegin
    \/ UaAfterBm
    \/ EdtAfterGet
    \/ EdtAfterPost
    \/ UaAfterRollup
    \/ UaAfterCategory
    \/ SyncAfterGet
    \/ SyncAfterDel
    \/ SyncAfterAdd
    \/ UaAfterSync
    \/ UaAfterAnnouncement
    \/ UpdateAssetReturn

SpecUpdate == InitUpdate /\ [][NextUpdate]_vars

\* The scans of the runs with denials: no finding; a high and a low finding
\* of two categories.
DeniedRunSummaries ==
    { Summarize(<<>>),
      Summarize(<< [severity |-> SevHigh, category |-> CatPii],
                   [severity |-> SevLow, category |-> CatStale] >>) }

\* The updates of a run in which the catalog denies up to MaxDenials
\* requests and answers all the others.
InitAbort ==
    /\ consecutive_403 = 0
    /\ \E c \in UpdCatalogs :
         /\ cat_classdefs = c.classdefs
         /\ cat_tags = [g \in Assets |-> c.tags]
    /\ cat_hashes = TRUE
    /\ tlx_tag_names \in {{}, RegistryOf(cat_classdefs)}
    /\ created_tags = tlx_tag_names
    /\ InitControl
    /\ InitHistory
    /\ faultsLeft = MaxDenials
    /\ opsLeft = MaxDeniedUpdates
    /\ NoTagId
    /\ NoDomain
    /\ \E sch \in SchemaStates :
         /\ cm_internal_name = sch.cm
         /\ attr_names = sch.attrs
    /\ risk_summary \in DeniedRunSummaries
    /\ ua = NoUa
    /\ calls = 0

NextAbort ==
    \/ HttpAttemptDeniable
    \/ UpdateAssetBegin
    \/ UaAfterBm
    \/ EdtAfterGet
    \/ EdtAfterPost
    \/ UaAfterRollup
    \/ UaAfterCategory
    \/ SyncAfterGet
    \/ SyncAfterDel
    \/ SyncAfterAdd
    \/ UaAfterSync
    \/ UaAfterAnnouncement
    \/ UpdateAssetReturn

SpecAbort == InitAbort /\ [][NextAbort]_vars

(***************************************************************************)
(* update_domain                                                           *)
(***************************************************************************)
\* The domain names main may pass: the names of the entities, and one that
\* no entity has.
DomainNames == {"Finance", "Ops", "Legal", "Sales"}

\* The loop of update_domain over the items of _domain_guid_map: the GUID
\* and the qualified name of the first item whose name is domain_name.
RECURSIVE FindDomain(_, _)
FindDomain(m, domain_name) ==
    IF m = <<>> THEN [domain_guid |-> None, domain_qn |-> None]
    ELSE IF Head(m).name = domain_name
         THEN [domain_guid |-> Head(m).guid,
               domain_qn |-> Head(m).qualifiedName]
         ELSE FindDomain(Tail(m), domain_name)

\* A mutant of the tests: the qualified name is not looked at.
UdRefusedOnGuidOnly(domain_guid, domain_qn) == domain_guid = None

\* "if not domain_guid" and "if not domain_qn".
UdRefused(domain_guid, domain_qn) ==
    domain_guid = None \/ domain_qn \in {None, ""}

\* update_domain from its entry to the attribute write of update_asset.
UdStartWith(aggregated_summary, domain_name) ==
    LET f == FindDomain(domain_guid_map, domain_name)
    IN  /\ ud' = [active |-> TRUE, domain_name |-> domain_name,
                  domain_guid |-> f.domain_guid,
                  domain_qn |-> f.domain_qn]
        /\ IF UdRefused(f.domain_guid, f.domain_qn)
           THEN /\ pc' = "ud_ret"
                /\ ua' = NoUa
                /\ req' = NoReq
           ELSE UaStartWith(aggregated_summary, f.domain_guid, "DataDomain",
                            domain_name, f.domain_qn)

\* update_domain called with the summary of the scanned account.
UdStart(domain_name) == UdStartWith(risk_summary, domain_name)

UpdateDomainBegin ==
    /\ pc = "idle"
    /\ opsLeft > 0
    /\ opsLeft' = opsLeft - 1
    /\ prevSync' = NoPrev
    /\ calls' = 0
    /\ \E domain_name \in DomainNames : UdStart(domain_name)
    /\ UNCHANGED <<clientvars, catvars, edt, syn, faultsLeft, trail403, tripped,
                   lastRet, tagvars, domvars, runvars, outs, schemavars,
                   latevars>>

\* update_domain returns False from its own tests, or what update_asset
\* returned.
UpdateDomainReturn ==
    /\ pc \in {"ud_ret", "ua_ret"}
    /\ ud.active
    /\ lastRet' = [op |-> "update_domain",
                   val |-> IF pc = "ud_ret" THEN "False" ELSE ua.ret]
    /\ pc' = "idle"
    /\ ua' = NoUa
    /\ ud' = NoUd
    /\ UNCHANGED <<clientvars, catvars, edt, syn, req, faultsLeft, opsLeft,
                   trail403, tripped, prevSync, tagvars, domvars, runvars,
                   outs, schemavars, latevars, calls>>

\* The client after initialization and the scan of the accounts: the index
\* _build_domain_guid_map built from the DataDomain entities of the catalog,
\* which carry the tags of an earlier run, or none of this system.
InitDomainUpdate ==
    /\ consecutive_403 = 0
    /\ \E c \in UpdCatalogs :
         /\ cat_classdefs = c.classdefs
         /\ cat_tags = [g \in Guids |-> c.tags]
    /\ cat_hashes = TRUE
    /\ tlx_tag_names = RegistryOf(cat_classdefs)
    /\ created_tags = tlx_tag_names
    /\ InitControl
    /\ InitHistory
    /\ faultsLeft = MaxDomUpdFaults
    /\ opsLeft = MaxDomUpdates
    /\ NoTagId
    /\ cat_domains \in SeqUpTo(DomainEntities, MaxDomains)
    /\ domain_guid_map = AddDomainEntities(<<>>, cat_domains)
    /\ dom_in = [kind |-> "none", val |-> <<>>]
    /\ dom_out = None
    /\ \E sch \in SchemaStates :
         /\ cm_internal_name = sch.cm
         /\ attr_names = sch.attrs
    /\ risk_summary \in DeniedRunSummaries
    /\ ua = NoUa
    /\ calls = 0

NextDomainUpdate ==
    \/ HttpAttempt
    \/ UpdateDomainBegin
    \/ UaAfterBm
    \/ EdtAfterGet
    \/ EdtAfterPost
    \/ UaAfterRollup
    \/ UaAfterCategory
    \/ SyncAfterGet
    \/ SyncAfterDel
    \/ SyncAfterAdd
    \/ UaAfterSync
    \/ UaAfterAnnouncement
    \/ UpdateDomainReturn

SpecDomainUpdate == InitDomainUpdate /\ [][NextDomainUpdate]_vars

(***************************************************************************)
(* Properties                                                              *)
(***************************************************************************)
SyncPcs == {"sync_get", "sync_del", "sync_add", "sync_ret"}

\* C1: _sync_tags_on_asset issues a classification removal (DELETE) only for
\* members of the registry _tlx_tag_names: every removal in flight, and every
\* removal the running sync has issued, names a registry tag.
SyncRemovesOnlyRegistryTags ==
    /\ (req.st # "idle" /\ req.ep = "cls_delete") => req.arg.tag \in tlx_tag_names
    /\ pc \in SyncPcs => syn.dels \subseteq tlx_tag_names

\* C1, the case: a sync that removed a tag has returned, and a tag that is on
\* the asset, not desired and not in the registry is still on the asset.
SyncKeptForeignTag ==
    /\ pc = "sync_ret"
    /\ syn.dels # {}
    /\ \E t \in cat_tags[syn.guid] : t \notin tlx_tag_names /\ t \notin syn.desired

\* The sync that returns now follows, with nothing in between, a sync of the
\* same asset with the same desired set whose changes the catalog applied.
SecondSyncInARow ==
    /\ pc = "sync_ret"
    /\ prevSync.valid
    /\ prevSync.guid = syn.guid
    /\ prevSync.desired = syn.desired
    /\ prevSync.applied

\* C2 as stated: the second of two such syncs issues no remote call at all.
SecondSyncIssuesNoCall == SecondSyncInARow => syn.ncalls = 0

\* C2 as amended: when both syncs read the asset's classifications and the
\* desired set lies in the registry, the second sync issues its read and
\* nothing else: no removal and no add.
SecondSyncOnlyReads ==
    (/\ SecondSyncInARow
     /\ prevSync.read_ok
     /\ syn.read_ok
     /\ syn.desired \subseteq tlx_tag_names)
    => (syn.ncalls = 1 /\ syn.dels = {} /\ syn.adds = {})

\* C2, the case: the first sync changed the asset's tags and the second one
\* read them and found nothing to do.
SecondSyncAfterChange ==
    /\ SecondSyncInARow
    /\ prevSync.read_ok
    /\ syn.read_ok
    /\ syn.desired \subseteq tlx_tag_names
    /\ syn.desired # {}
    /\ prevSync.changed
    /\ syn.ncalls = 1

\* C3: _should_abort() is true once the last three responses were 403s, and
\* once true it stays true in every step but the one in which a request gets
\* a 2xx, which sets the consecutive-403 counter to 0.
AbortFlagHoldsUntilSuccess ==
    /\ [](trail403 >= ABORT_THRESHOLD => ShouldAbort)
    /\ [][(ShouldAbort /\ ~ShouldAbort')
            => (req.st = "pending" /\ req'.st = "done" /\ req'.applied)]_vars
    /\ [][(req.st = "pending" /\ req'.st = "done" /\ req'.applied)
            => consecutive_403' = 0]_vars

\* C3, the case: after the threshold was reached a further request got an
\* answer that is neither a 403 nor a success, and the flag is still up.
AbortFlagSurvivedOtherAnswer ==
    /\ ShouldAbort
    /\ trail403 = 0
    /\ req.st = "done"
    /\ req.ret = "none"

\* The maximal runs of alphanumeric characters of a name, in order.
RECURSIVE AlnumRunsFrom(_, _, _)
AlnumRunsFrom(s, cur, acc) ==
    IF s = <<>> THEN (IF cur = <<>> THEN acc ELSE Append(acc, cur))
    ELSE IF IsAlnum(Head(s)) THEN AlnumRunsFrom(Tail(s), Append(cur, Head(s)), acc)
    ELSE AlnumRunsFrom(Tail(s), <<>>, IF cur = <<>> THEN acc ELSE Append(acc, cur))

FoldedRuns(s) ==
    LET runs == AlnumRunsFrom(s, <<>>, <<>>)
    IN  [i \in 1..Len(runs) |-> Upper(runs[i])]

RECURSIVE JoinUnderscore(_)
JoinUnderscore(runs) ==
    IF runs = <<>> THEN <<>>
    ELSE IF Len(runs) = 1 THEN runs[1]
    ELSE runs[1] \o <<"_">> \o JoinUnderscore(Tail(runs))

\* C7: the identifier of a category name is TLX_ followed by its upper-cased
\* alphanumeric runs joined by single underscores, so two names with the same
\* runs up to letter case have the same identifier.
TagIdNormalises ==
    tpc = "done" =>
      /\ idA = TAG_PREFIX \o JoinUnderscore(FoldedRuns(nameA))
      /\ idB = TAG_PREFIX \o JoinUnderscore(FoldedRuns(nameB))
      /\ FoldedRuns(nameA) = FoldedRuns(nameB) => idA = idB

\* C7, the case: two names of two runs each, which differ in the case of a
\* letter and in the character between the runs, got one identifier.
TagIdsOfVariantsComputed ==
    /\ tpc = "done"
    /\ Len(FoldedRuns(nameA)) = 2
    /\ FoldedRuns(nameA) = FoldedRuns(nameB)
    /\ Len(nameA) = Len(nameB)
    /\ Upper(nameA) # Upper(nameB)
    /\ \E i \in 1..Len(nameA) :
          nameA[i] # nameB[i] /\ UpperChar(nameA[i]) = UpperChar(nameB[i])
    /\ idA = idB

\* The GUIDs given to the last resolution, and those of them in the index.
GivenGuids ==
    IF dom_in.kind = "none" THEN {}
    ELSE {dom_in.val[i] : i \in 1..Len(dom_in.val)}
ResolvableGuids == GivenGuids \cap DictKeys(domain_guid_map)

\* C8: _resolve_domain_from_guids returns "Unassigned" when no GUID is given
\* or none of the given GUIDs is a key of the index, and otherwise the display
\* name the index holds for one of the given GUIDs.
ResolvesOrFallsBack ==
    dom_out # None =>
      /\ ResolvableGuids = {} => dom_out = Unassigned
      /\ ResolvableGuids # {} =>
            \E g \in ResolvableGuids : dom_out = DictGet(domain_guid_map, g).name

\* C8, the case: the first of two GUIDs is unknown and the second resolves.
ResolvedSecondGuid ==
    /\ dom_in.kind = "list"
    /\ Len(dom_in.val) = 2
    /\ dom_in.val[1] \notin DictKeys(domain_guid_map)
    /\ dom_in.val[2] \in DictKeys(domain_guid_map)
    /\ dom_out = DictGet(domain_guid_map, dom_in.val[2]).name

\* The first entry of the index whose GUID was given, and the first given
\* GUID that the index holds.
FirstInIndex ==
    LET i == CHOOSE j \in 1..Len(domain_guid_map) :
                 /\ domain_guid_map[j].guid \in GivenGuids
                 /\ \A k \in 1..(j - 1) : domain_guid_map[k].guid \notin GivenGuids
    IN  domain_guid_map[i]
FirstInList ==
    LET i == CHOOSE j \in 1..Len(dom_in.val) :
                 /\ dom_in.val[j] \in DictKeys(domain_guid_map)
                 /\ \A k \in 1..(j - 1) : dom_in.val[k] \notin DictKeys(domain_guid_map)
    IN  DictGet(domain_guid_map, dom_in.val[i])

SeveralResolvable == dom_out # None /\ Cardinality(ResolvableGuids) >= 2

\* C9 as stated: of several GUIDs in the index, the one that comes first in
\* the index gives the name.
ResolvesFirstInIndex == SeveralResolvable => dom_out = FirstInIndex.name

\* C9 as amended: of several GUIDs in the index, the one that comes first in
\* the asset's GUID list gives the name.
ResolvesFirstInList == SeveralResolvable => dom_out = FirstInList.name

\* C9, the case: the list and the index order two resolvable GUIDs
\* differently, and the list's first one gave the name.
ResolvedAgainstIndexOrder ==
    /\ SeveralResolvable
    /\ FirstInList.guid # FirstInIndex.guid
    /\ dom_out = FirstInList.name

\* C4: an update_asset call that finds the schema name unresolved or the
\* abort flag up at its entry sends no request and returns False.
UpdateRefusedAtEntry ==
    (ua.guid # "" /\ (ua.entry_cm = None \/ ua.entry_abort))
    => (pc = "ua_ret" /\ ua.ret = "False" /\ calls = 0 /\ req.st = "idle")

\* C4, the case: the schema is resolved, the abort flag was up at the entry,
\* and the call is about to return.
UpdateRefusedByAbort ==
    /\ pc = "ua_ret"
    /\ ua.entry_abort
    /\ ua.entry_cm # None
    /\ ua.ret = "False"
    /\ calls = 0

\* A request other than a read is handed to _request in this step.
IssuesWrite ==
    /\ req.st # "pending"
    /\ req'.st = "pending"
    /\ req'.method # "GET"

\* C5: once the consecutive-403 counter has reached the threshold, no
\* operation issues a write request.
NoWriteOnceTripped == [][tripped => ~IssuesWrite]_vars

EdtPcs == {"edt_get", "edt_post", "edt_ret"}

\* C6: the category ensure_rollup_tag asks a tag for is one of the three
\* rollup names: the high-risk one exactly if high > 0, the risks-detected
\* one exactly if high is 0 and total > 0, the verified one exactly if both
\* are 0.
RollupSelectedByThresholds ==
    (pc \in EdtPcs /\ edt.caller = "ua_rollup") =>
      /\ edt.cat \in {HighRiskName, RisksDetectedName, VerifiedName}
      /\ edt.cat = HighRiskName <=> ua.summary.high > 0
      /\ edt.cat = RisksDetectedName
           <=> (ua.summary.high <= 0 /\ ua.summary.total > 0)
      /\ edt.cat = VerifiedName
           <=> (ua.summary.high <= 0 /\ ua.summary.total <= 0)

\* C6, the case: risks, none of them high, and the tag of the risks-detected
\* name was ensured.
RollupForRisksWithoutHigh ==
    /\ pc = "edt_ret"
    /\ edt.caller = "ua_rollup"
    /\ ua.summary.high = 0
    /\ ua.summary.total > 0
    /\ edt.cat = RisksDetectedName

\* C10: when update_asset has come to write the announcement, the status it
\* wrote, the rollup tag it asked for and the tier of the announcement follow
\* the same thresholds: "<high> High", the high-risk tag and an issue that
\* mentions "<high> high" if high > 0; "<total> Risk(s) Found", the
\* risks-detected tag and a warning if high = 0 < total; the verified status,
\* the verified tag as the only desired tag and an information if total = 0.
ThresholdsAgree ==
    pc = "ua_ann" =>
      LET sm == ua.summary
          ann == req.arg.announcement
      IN  /\ "scan_status" \in DOMAIN attr_names
               => ua.bm_values[attr_names["scan_status"]] = ua.scan_status
          /\ ua.rollup_tag \in ua.desired
          /\ sm.high > 0 =>
               /\ Contains(ua.scan_status, <<NumStr(sm.high), "High">>)
               /\ ua.rollup_cat = HighRiskName
               /\ ann.type = "issue"
               /\ Contains(ann.message[1], <<NumStr(sm.high), "high,">>)
          /\ (sm.high = 0 /\ sm.total > 0) =>
               /\ Len(ua.scan_status) = 3
               /\ ua.scan_status[1] = NumStr(sm.total)
               /\ ua.scan_status[2] \in {"Risk", "Risks"}
               /\ ua.scan_status[3] = "Found"
               /\ ua.rollup_cat = RisksDetectedName
               /\ ann.type = "warning"
          /\ sm.total = 0 =>
               /\ ua.scan_status = VerifiedStatus
               /\ ua.rollup_cat = VerifiedName
               /\ ua.desired = {ua.rollup_tag}
               /\ ann.type = "information"

\* C10, the case: one high risk among two of two categories; the status is
\* written, three tags are desired, and the catalog took the issue
\* announcement.
IssueAnnouncedForHighRisk ==
    /\ pc = "ua_ann"
    /\ req.st = "done"
    /\ req.applied
    /\ ua.summary.high = 1
    /\ ua.summary.total = 2
    /\ "scan_status" \in DOMAIN attr_names
    /\ Cardinality(ua.desired) = 3
    /\ req.arg.announcement.type = "issue"
(***************************************************************************)
(* ensure_metadata_def                                                     *)
(***************************************************************************)
\* The display name _find_existing_bm_def looks for.
CM_DISPLAY == "TrustLogix Governance"

\* AtlanClient.LOGO_URL
LOGO_URL == "logo_url"

\* AtlanClient._OVERVIEW_ATTRS
OVERVIEW_ATTRS == {"Total Risks", "High Severity", "Last Scanned", "Scan Status"}

\* The display names whose entry of ATTR_DEFS sets showInOverview.
ShownByDefault == {"Total Risks", "High Severity", "Last Scanned", "Scan Status"}

\* An attribute of a typedef of the catalog.  types is what its options hold
\* as applicableEntityTypes: "none" when absent, "some" for a list without
\* DataDomain, "all" for the list of ensure_metadata_def; overview is
\* whether showInOverview is "true".
CatAttr(display, types, overview) ==
    [name |-> <<"#", display>>, displayName |-> display, archived |-> FALSE,
     types |-> types, overview |-> overview]

\* The attribute _create_new_bm_def and _add_missing_attributes send for a
\* key of ATTR_DEFS: under the key as its name, with all entity types.
NewAttr(d) ==
    [name |-> <<d.key>>, displayName |-> d.display, archived |-> FALSE,
     types |-> "all", overview |-> d.display \in ShownByDefault]

\* _find_existing_bm_def on the value _get returned.
FindExistingBmDef(ret, resp) ==
    IF ret # "json" THEN <<>>
    ELSE LET hits == {i \in 1..Len(resp) : resp[i].displayName = CM_DISPLAY}
         IN  IF hits = {} THEN <<>>
             ELSE <<resp[CHOOSE i \in hits : \A j \in hits : i <= j]>>

\* A mutant of the test: every attribute must list all the entity types.
BmHasAllEntityTypes(bm_def) ==
    /\ bm_def.attributeDefs # <<>>
    /\ \A i \in 1..Len(bm_def.attributeDefs) :
          bm_def.attributeDefs[i].types = "all"

\* _bm_has_entity_types
BmHasEntityTypes(bm_def) ==
    /\ bm_def.attributeDefs # <<>>
    /\ \A i \in 1..Len(bm_def.attributeDefs) :
          bm_def.attributeDefs[i].types # "none"

\* missing: the keys of REQUIRED_ATTRS that did not resolve, in order.
MissingKeys(names) ==
    SelectSeq(ATTR_DEFS, LAMBDA d : d.key \notin DOMAIN names)

\* The typedef _add_missing_attributes sends: the attributes of bm_def and
\* the new ones.
AddPayload(bm_def, missing) ==
    [name |-> bm_def.name, options |-> FALSE, imageId |-> "", logoUrl |-> "",
     attributeDefs |-> bm_def.attributeDefs
                       \o [i \in 1..Len(missing) |-> NewAttr(missing[i])]]

\* needs_update of _ensure_entity_types_include
NeedsEntityTypes(bm_def) ==
    \E i \in 1..Len(bm_def.attributeDefs) :
        bm_def.attributeDefs[i].types # "all"

\* The typedef _ensure_entity_types_include sends.
WidenPayload(bm_def) ==
    [name |-> bm_def.name, options |-> FALSE, imageId |-> "", logoUrl |-> "",
     attributeDefs |-> [i \in 1..Len(bm_def.attributeDefs) |->
                          [bm_def.attributeDefs[i] EXCEPT !.types = "all"]]]

\* desired_logo, current_logo, logo_changed and attrs_changed of
\* _update_bm_def_options.
DesiredLogo(image_id) == IF image_id # "" THEN image_id ELSE LOGO_URL

CurrentLogo(bm_def) ==
    IF bm_def.imageId # "" THEN bm_def.imageId ELSE bm_def.logoUrl

OptionsChanged(bm_def, image_id) ==
    \/ CurrentLogo(bm_def) # DesiredLogo(image_id)
    \/ \E i \in 1..Len(bm_def.attributeDefs) :
          /\ bm_def.attributeDefs[i].displayName \in OVERVIEW_ATTRS
          /\ ~bm_def.attributeDefs[i].overview

\* The typedef _update_bm_def_options sends: the options of bm_def under the
\* new logo reference, and its attributes with the flags set.
OptionsPayload(bm_def, image_id) ==
    [name |-> bm_def.name, options |-> TRUE,
     imageId |-> IF image_id # "" THEN image_id ELSE bm_def.imageId,
     logoUrl |-> IF image_id # "" THEN bm_def.logoUrl ELSE LOGO_URL,
     attributeDefs |->
         [i \in 1..Len(bm_def.attributeDefs) |->
            IF bm_def.attributeDefs[i].displayName \in OVERVIEW_ATTRS
            THEN [bm_def.attributeDefs[i] EXCEPT !.overview = TRUE]
            ELSE bm_def.attributeDefs[i]]]

\* The typedef _create_new_bm_def sends.
CreatePayload(image_id) ==
    [name |-> CM_DISPLAY, displayName |-> CM_DISPLAY,
     imageId |-> image_id,
     logoUrl |-> IF image_id # "" THEN "" ELSE LOGO_URL,
     attributeDefs |-> [i \in 1..Len(ATTR_DEFS) |-> NewAttr(ATTR_DEFS[i])]]

\* What the steps of ensure_metadata_def leave alone.
emdkeeps == <<clientvars, cat_classdefs, cat_tags, cat_hashes, edt, syn,
              trail403, tripped, lastRet, tagvars, domvars, risk_summary, ua,
              outs, ud, cat_replaces, latevars, calls>>

\* ensure_metadata_def(image_id) up to the GET of _find_existing_bm.
EmdStart(image_id) ==
    /\ emd' = [NoEmd EXCEPT !.active = TRUE, !.image_id = image_id]
    /\ req' = NewReq("GET", "bm_list", <<>>)
    /\ pc' = "emd_find"

EnsureMetadataDefBegin ==
    /\ pc = "idle"
    /\ StartOp
    /\ \E image_id \in {"", "img1"} : EmdStart(image_id)
    /\ UNCHANGED <<emdkeeps, faultsLeft, cat_bm, cm_internal_name, attr_names>>

\* The end of ensure_metadata_def.
EmdReturn ==
    /\ pc' = "idle"
    /\ req' = NoReq
    /\ emd' = NoEmd

\* _update_bm_def_options(existing, image_id), the last step of the branch
\* that keeps the definition.
EmdOptions ==
    IF OptionsChanged(emd.existing[1], emd.image_id)
    THEN /\ req' = NewReq("PUT", "bm_put",
                          OptionsPayload(emd.existing[1], emd.image_id))
         /\ pc' = "emd_opts"
         /\ emd' = emd
    ELSE EmdReturn

\* _ensure_entity_types_include(existing, entity_types), then the options.
EmdWiden(existing) ==
    IF NeedsEntityTypes(existing)
    THEN /\ req' = NewReq("PUT", "bm_put", WidenPayload(existing))
         /\ pc' = "emd_widen"
    ELSE IF OptionsChanged(existing, emd.image_id)
    THEN /\ req' = NewReq("PUT", "bm_put",
                          OptionsPayload(existing, emd.image_id))
         /\ pc' = "emd_opts"
    ELSE /\ pc' = "idle"
         /\ req' = NoReq

\* After the first _find_existing_bm_def: keep and patch a definition that
\* has entity types, delete one that has not, create one when none is found.
EmdAfterFind ==
    /\ pc = "emd_find"
    /\ req.st = "done"
    /\ LET existing == FindExistingBmDef(req.ret, req.resp)
       IN  IF existing = <<>>
           THEN /\ req' = NewReq("POST", "bm_create", CreatePayload(emd.image_id))
                /\ pc' = "emd_create"
                /\ emd' = emd
                /\ UNCHANGED <<cm_internal_name, attr_names>>
           ELSE IF BmHasEntityTypes(existing[1])
           THEN LET names == ResolveAttrNames(existing[1])
                    missing == MissingKeys(names)
                IN  /\ cm_internal_name' = existing[1].name
                    /\ attr_names' = names
                    /\ IF missing # <<>>
                       THEN /\ req' = NewReq("PUT", "bm_put",
                                             AddPayload(existing[1], missing))
                            /\ pc' = "emd_add"
                            /\ emd' = [emd EXCEPT !.existing = existing,
                                                  !.missing = missing]
                       ELSE /\ EmdWiden(existing[1])
                            /\ emd' = IF pc' = "idle" THEN NoEmd
                                      ELSE [emd EXCEPT !.existing = existing]
           ELSE /\ req' = NoReq
                /\ pc' = "emd_del"
                /\ emd' = [emd EXCEPT !.existing = existing]
                /\ UNCHANGED <<cm_internal_name, attr_names>>
    /\ UNCHANGED <<emdkeeps, faultsLeft, opsLeft, prevSync, cat_bm>>

\* After the update that adds the missing attributes: the second
\* _find_existing_bm_def.
EmdAfterAdd ==
    /\ pc = "emd_add"
    /\ req.st = "done"
    /\ req' = NewReq("GET", "bm_list", <<>>)
    /\ pc' = "emd_refresh"
    /\ UNCHANGED <<emdkeeps, faultsLeft, opsLeft, prevSync, cat_bm, emd,
                   cm_internal_name, attr_names>>

\* The names are resolved again from the definition read back, and the two
\* other updates work on the definition found first.
EmdAfterRefresh ==
    /\ pc = "emd_refresh"
    /\ req.st = "done"
    /\ LET refreshed == FindExistingBmDef(req.ret, req.resp)
       IN  IF refreshed # <<>>
           THEN /\ cm_internal_name' = refreshed[1].name
                /\ attr_names' = ResolveAttrNames(refreshed[1])
           ELSE UNCHANGED <<cm_internal_name, attr_names>>
    /\ EmdWiden(emd.existing[1])
    /\ emd' = IF pc' = "idle" THEN NoEmd ELSE emd
    /\ UNCHANGED <<emdkeeps, faultsLeft, opsLeft, prevSync, cat_bm>>

EmdAfterWiden ==
    /\ pc = "emd_widen"
    /\ req.st = "done"
    /\ EmdOptions
    /\ UNCHANGED <<emdkeeps, faultsLeft, opsLeft, prevSync, cat_bm,
                   cm_internal_name, attr_names>>

EmdAfterOptions ==
    /\ pc = "emd_opts"
    /\ req.st = "done"
    /\ EmdReturn
    /\ UNCHANGED <<emdkeeps, faultsLeft, opsLeft, prevSync, cat_bm,
                   cm_internal_name, attr_names>>

\* What requests.delete of _delete_bm_def can end in: 200 or 204, another
\* status, an exception.
DeleteOutcomes == {"deleted", "refused", "error"}

\* _delete_bm_def, which does not go through _request, then the start of
\* _create_new_bm_def.
EmdDelete ==
    /\ pc = "emd_del"
    /\ \E o \in DeleteOutcomes :
         /\ o # "deleted" => faultsLeft > 0
         /\ faultsLeft' = IF o = "deleted" THEN faultsLeft ELSE faultsLeft - 1
         /\ cat_bm' = IF o = "deleted"
                      THEN SelectSeq(cat_bm,
                                     LAMBDA d : d.name # emd.existing[1].name)
                      ELSE cat_bm
    /\ req' = NewReq("POST", "bm_create", CreatePayload(emd.image_id))
    /\ pc' = "emd_create"
    /\ UNCHANGED <<emdkeeps, opsLeft, prevSync, emd, cm_internal_name,
                   attr_names>>

\* After the creation: the definition is looked up whatever the answer was.
EmdAfterCreate ==
    /\ pc = "emd_create"
    /\ req.st = "done"
    /\ req' = NewReq("GET", "bm_list", <<>>)
    /\ pc' = "emd_verify"
    /\ UNCHANGED <<emdkeeps, faultsLeft, opsLeft, prevSync, cat_bm, emd,
                   cm_internal_name, attr_names>>

EmdAfterVerify ==
    /\ pc = "emd_verify"
    /\ req.st = "done"
    /\ LET found == FindExistingBmDef(req.ret, req.resp)
       IN  IF found # <<>>
           THEN /\ cm_internal_name' = found[1].name
                /\ attr_names' = ResolveAttrNames(found[1])
           ELSE /\ cm_internal_name' = None
                /\ attr_names' = attr_names
    /\ EmdReturn
    /\ UNCHANGED <<emdkeeps, faultsLeft, opsLeft, prevSync, cat_bm>>

\* A typedef of the catalog under the display name of this system.
CatDef(imageId, logoUrl, attributeDefs) ==
    [name |-> "cm1", displayName |-> CM_DISPLAY, imageId |-> imageId,
     logoUrl |-> logoUrl, attributeDefs |-> attributeDefs]

\* A typedef of another system.
ForeignBmDef ==
    [name |-> "cm0", displayName |-> "Data Quality", imageId |-> "",
     logoUrl |-> "", attributeDefs |-> <<CatAttr("Owner", "some", FALSE)>>]

\* The definition a completed run leaves: the eight attributes with all
\* entity types, the flags and the logo URL.
FullDef ==
    CatDef("", LOGO_URL,
           [i \in 1..Len(ATTR_DEFS) |->
               CatAttr(ATTR_DEFS[i].display, "all",
                       ATTR_DEFS[i].display \in ShownByDefault)])

\* The definition of the first release: three attributes, no DataDomain
\* among their entity types, no flag, no logo.
FirstReleaseDef ==
    CatDef("", "", << CatAttr("Total Risks", "some", FALSE),
                      CatAttr("High Severity", "some", FALSE),
                      CatAttr("Risk Details", "some", FALSE) >>)

\* The definition a run leaves that uploaded the logo: the eight attributes
\* and the image reference of that upload, no logo URL.
ImagedDef ==
    CatDef("img0", "",
           [i \in 1..Len(ATTR_DEFS) |->
               CatAttr(ATTR_DEFS[i].display, "all",
                       ATTR_DEFS[i].display \in ShownByDefault)])

\* Definitions that are not applicable to entities: an attribute without
\* entity types, and no attribute at all.
UntypedDef ==
    CatDef("", LOGO_URL, << CatAttr("Total Risks", "all", TRUE),
                            CatAttr("Scan Status", "none", FALSE) >>)
EmptyDef == CatDef("", "", <<>>)

\* The business-metadata typedefs the catalog may hold when the run starts.
SchemaCatalogs ==
    { <<>>, <<ForeignBmDef>>, <<ForeignBmDef, FullDef>>, <<FirstReleaseDef>>,
      <<ForeignBmDef, UntypedDef>>, <<EmptyDef>>, <<ImagedDef>> }

\* The client after construction, before ensure_metadata_def.
InitSchema ==
    /\ InitClient
    /\ cat_classdefs = <<>>
    /\ cat_tags = [g \in Assets |-> {}]
    /\ cat_hashes = TRUE
    /\ InitControl
    /\ NoLate
    /\ trail403 = 0
    /\ tripped = FALSE
    /\ prevSync = NoPrev
    /\ lastRet = [op |-> "", val |-> None]
    /\ outs = <<>>
    /\ ud = NoUd
    /\ cat_bm \in SchemaCatalogs
    /\ cat_replaces \in BOOLEAN
    /\ emd = NoEmd
    /\ faultsLeft = MaxSchemaFaults
    /\ opsLeft = MaxSchemaOps
    /\ NoTagId
    /\ NoDomain
    /\ NoUpdate
    /\ calls = 0

NextSchema ==
    \/ HttpAttempt
    \/ EnsureMetadataDefBegin
    \/ EmdAfterFind
    \/ EmdAfterAdd
    \/ EmdAfterRefresh
    \/ EmdAfterWiden
    \/ EmdAfterOptions
    \/ EmdDelete
    \/ EmdAfterCreate
    \/ EmdAfterVerify

SpecSchema == InitSchema /\ [][NextSchema]_vars

(***************************************************************************)
(* _resolve_attr_names on the definitions the catalog can answer with      *)
(***************************************************************************)
MaxLiveAttrs == 2

\* The attributes of a live definition: under an expected display name, under
\* one that differs in case only, archived or not, and under either of two
\* catalog-assigned names.
LiveAttrs ==
    {[name |-> <<h, display>>, displayName |-> display, archived |-> arch,
      types |-> "all", overview |-> FALSE] :
        h \in {"#", "#2"},
        display \in {"Total Risks", "total risks", "Scan Status"},
        arch \in BOOLEAN}

\* The live definition is the one typedef of the catalog under the display
\* name of this system; nothing is resolved yet.
InitResolve ==
    /\ InitClient
    /\ cat_classdefs = <<>>
    /\ cat_tags = [g \in Assets |-> {}]
    /\ cat_hashes = TRUE
    /\ InitControl
    /\ NoLate
    /\ trail403 = 0
    /\ tripped = FALSE
    /\ prevSync = NoPrev
    /\ lastRet = [op |-> "", val |-> None]
    /\ outs = <<>>
    /\ ud = NoUd
    /\ \E attributeDefs \in SeqUpTo(LiveAttrs, MaxLiveAttrs) :
          cat_bm = <<CatDef("", "", attributeDefs)>>
    /\ cat_replaces = FALSE
    /\ emd = NoEmd
    /\ faultsLeft = 0
    /\ opsLeft = 0
    /\ NoTagId
    /\ NoDomain
    /\ NoUpdate
    /\ calls = 0

\* _resolve_attr_names(bm_def) on the live definition.
ResolveLive ==
    /\ pc = "idle"
    /\ cm_internal_name = None
    /\ cm_internal_name' = cat_bm[1].name
    /\ attr_names' = ResolveAttrNames(cat_bm[1])
    /\ UNCHANGED <<clientvars, catvars, ctlvars, histvars, tagvars, domvars,
                   risk_summary, ua, morevars, calls>>

NextResolve == ResolveLive

SpecResolve == InitResolve /\ [][NextResolve]_vars

(***************************************************************************)
(* ensure_metadata_policy                                                  *)
(***************************************************************************)
\* The words _tlx_policy_exists looks for in the lowered name of a referred
\* entity, and the name and the qualified-name infix of the policy
\* _create_metadata_policy sends.
TrustlogixLower == <<"t","r","u","s","t","l","o","g","i","x">>
TlxViewLower == <<"t","l","x","-","v","i","e","w">>
POLICY_NAME ==
    <<"T","r","u","s","t","L","o","g","i","x"," ","G","o","v","e","r","n",
    "a","n","c","e"," ","-"," ","V","i","e","w"," ","C","u","s","t","o","m",
    " ","M","e","t","a","d","a","t","a">>
PolicyInfix == "/metadata/tlx-view-"

\* hashlib.md5(persona_guid.encode()).hexdigest()[:8]: a digest of the GUID.
Md5Prefix(guid) == <<"md5", guid>>

\* str.rstrip("/")
RECURSIVE RStripSlash(_)
RStripSlash(s) ==
    IF s # <<>> /\ s[Len(s)] = "/"
    THEN RStripSlash(SubSeq(s, 1, Len(s) - 1)) ELSE s

DefaultLower == <<"d","e","f","a","u","l","t">>

\* policy_qn of _create_metadata_policy
PolicyQn(persona_guid, persona_qn) ==
    << IF persona_qn # <<>> THEN RStripSlash(persona_qn) ELSE DefaultLower,
       PolicyInfix, Md5Prefix(persona_guid) >>

\* The test of _tlx_policy_exists on the name of one referred entity.
IsTlxPolicyName(ref_name) ==
    \/ Contains(Lower(ref_name), TrustlogixLower)
    \/ Contains(Lower(ref_name), TlxViewLower)

\* _tlx_policy_exists, from what the GET of the persona returned: no data
\* reads as no policy.
TlxPolicyExists(r) ==
    /\ r.ret = "json"
    /\ \E i \in 1..Len(r.resp) : IsTlxPolicyName(r.resp[i].name)

\* _find_default_persona, from what the search returned: the first persona
\* named "Default" in any case, else the first persona, else nothing.
FindDefaultPersona(r) ==
    LET entities == IF r.ret = "json" THEN r.resp ELSE <<>>
        named == {i \in 1..Len(entities) :
                     Lower(entities[i].name) = DefaultLower}
    IN  IF named # {}
        THEN entities[CHOOSE i \in named : \A j \in named : i <= j]
        ELSE IF entities # <<>> THEN entities[1]
        ELSE [guid |-> None, name |-> <<>>, qualifiedName |-> <<>>]

\* _get_connection_resources, from what the search returned.
FallbackResources == <<"entity:default/snowflake/1768577943">>
ConnectionResources(r) ==
    LET found == IF r.ret = "json"
                 THEN [i \in 1..Len(r.resp) |-> <<"entity:", r.resp[i]>>]
                 ELSE <<>>
    IN  IF found = <<>> THEN FallbackResources ELSE found

\* What the steps of badge and policy provisioning leave alone.
provkeep == <<clientvars, catvars, edt, syn, faultsLeft, trail403, tripped,
              lastRet, tagvars, domvars, updvars, outs, ud, schemavars,
              since2xx, rebuilt, ensured, returned, provcat, cat_personas,
              mainvars, calls>>

\* ensure_metadata_policy up to the search of _find_default_persona.
EmpStart ==
    IF cm_internal_name = None
    THEN UNCHANGED <<pc, req, emp>>
    ELSE /\ req' = NewReq("POST", "persona_search", <<>>)
         /\ pc' = "emp_find"
         /\ emp' = [NoEmp EXCEPT !.active = TRUE]

EnsureMetadataPolicyBegin ==
    /\ pc = "idle"
    /\ StartOp
    /\ EmpStart
    /\ UNCHANGED <<provkeep, ebd>>

EmpAfterFind ==
    /\ pc = "emp_find"
    /\ req.st = "done"
    /\ LET persona == FindDefaultPersona(req)
       IN  IF persona.guid = None
           THEN /\ pc' = "idle"
                /\ req' = NoReq
                /\ emp' = NoEmp
           ELSE /\ req' = NewReq("GET", "persona_get", [guid |-> persona.guid])
                /\ pc' = "emp_check"
                /\ emp' = [emp EXCEPT !.persona_guid = persona.guid,
                                      !.persona_qn = persona.qualifiedName]
    /\ UNCHANGED <<provkeep, ebd, opsLeft, prevSync>>

EmpAfterCheck ==
    /\ pc = "emp_check"
    /\ req.st = "done"
    /\ IF TlxPolicyExists(req)
       THEN /\ pc' = "idle"
            /\ req' = NoReq
            /\ emp' = NoEmp
       ELSE /\ req' = NewReq("POST", "conn_search", <<>>)
            /\ pc' = "emp_conn"
            /\ emp' = emp
    /\ UNCHANGED <<provkeep, ebd, opsLeft, prevSync>>

EmpAfterConn ==
    /\ pc = "emp_conn"
    /\ req.st = "done"
    /\ req' = NewReq("POST", "policy_create",
                     [name |-> POLICY_NAME,
                      qualifiedName |-> PolicyQn(emp.persona_guid,
                                                 emp.persona_qn),
                      persona |-> emp.persona_guid,
                      resources |-> ConnectionResources(req)])
    /\ pc' = "emp_create"
    /\ UNCHANGED <<provkeep, emp, ebd, opsLeft, prevSync>>

EmpAfterCreate ==
    /\ pc = "emp_create"
    /\ req.st = "done"
    /\ pc' = "idle"
    /\ req' = NoReq
    /\ emp' = NoEmp
    /\ UNCHANGED <<provkeep, ebd, opsLeft, prevSync>>

(***************************************************************************)
(* ensure_badges                                                           *)
(***************************************************************************)
\* AtlanClient.BADGE_DEFS, in the order of the dict; a condition is the
\* operator, the value and the colour.
VerifiedQuoted == "\"(check) TrustLogix Data Access Governance Verified\""
BADGE_DEFS ==
    << [name |-> "Scan Status", cm_attr_key |-> "scan_status",
        conditions |-> << <<"eq", VerifiedQuoted, "#047960">>,
                          <<"neq", VerifiedQuoted, "#BF1B1B">> >>],
       [name |-> "High Severity", cm_attr_key |-> "high_severity",
        conditions |-> << <<"eq", "0", "#047960">>,
                          <<"gte", "1", "#BF1B1B">> >>],
       [name |-> "Total Risks", cm_attr_key |-> "total_risks",
        conditions |-> << <<"eq", "0", "#047960">>,
                          <<"gte", "1", "#F7B43D">>,
                          <<"gte", "5", "#BF1B1B">> >>] >>

\* qn of ensure_badges
BadgeQn(cm, hashed_attr) == <<"badges/global/", cm, ".", hashed_attr>>

\* The conditions of a payload: the list comprehension of _create_badge and
\* of _update_badge.
BadgeConditions(badge_def) ==
    [i \in 1..Len(badge_def.conditions) |->
        [badgeConditionOperator |-> badge_def.conditions[i][1],
         badgeConditionValue |-> badge_def.conditions[i][2],
         badgeConditionColorhex |-> badge_def.conditions[i][3]]]

\* _find_existing_badges, from what the search returned: the items of the
\* dict; a failed search reads as no badge.
FindExistingBadges(r) ==
    IF r.ret = "json"
    THEN SelectSeq(r.resp, LAMBDA ent : ent.qualifiedName # <<>> /\ ent.guid # <<>>)
    ELSE <<>>

\* existing_badges[qn]: the last item under the key; <<>> when qn is no key.
ExistingGuid(existing, qn) ==
    LET hits == {i \in 1..Len(existing) : existing[i].qualifiedName = qn}
    IN  IF hits = {} THEN <<>>
        ELSE existing[CHOOSE i \in hits : \A j \in hits : j <= i].guid

\* The badge definitions of the loop that send a request: those whose
\* attribute is resolved.
BadgeTodo ==
    SelectSeq(BADGE_DEFS, LAMBDA d : d.cm_attr_key \in DOMAIN attr_names)

\* The payload of _update_badge (a GUID is given) or _create_badge.
BadgePayload(badge_def, existing) ==
    LET qn == BadgeQn(cm_internal_name, attr_names[badge_def.cm_attr_key])
    IN  [guid |-> ExistingGuid(existing, qn), name |-> badge_def.name,
         qualifiedName |-> qn, conditions |-> BadgeConditions(badge_def)]

\* The loop of ensure_badges from its next definition on.
EbdProceed(existing, todo, sent) ==
    IF todo = <<>>
    THEN /\ pc' = "idle"
         /\ req' = NoReq
         /\ ebd' = NoEbd
    ELSE /\ req' = NewReq("POST", "badge_write",
                          BadgePayload(Head(todo), existing))
         /\ pc' = "ebd_write"
         /\ ebd' = [active |-> TRUE, existing |-> existing,
                    todo |-> Tail(todo), sent |-> Append(sent, Head(todo).name)]

\* ensure_badges up to the search of _find_existing_badges.
EbdStart ==
    IF cm_internal_name = None
    THEN UNCHANGED <<pc, req, ebd>>
    ELSE /\ req' = NewReq("POST", "badge_search", <<>>)
         /\ pc' = "ebd_find"
         /\ ebd' = [NoEbd EXCEPT !.active = TRUE]

EnsureBadgesBegin ==
    /\ pc = "idle"
    /\ StartOp
    /\ EbdStart
    /\ UNCHANGED <<provkeep, emp>>

EbdAfterFind ==
    /\ pc = "ebd_find"
    /\ req.st = "done"
    /\ EbdProceed(FindExistingBadges(req), BadgeTodo, <<>>)
    /\ UNCHANGED <<provkeep, emp, opsLeft, prevSync>>

EbdAfterWrite ==
    /\ pc = "ebd_write"
    /\ req.st = "done"
    /\ EbdProceed(ebd.existing, ebd.todo, ebd.sent)
    /\ UNCHANGED <<provkeep, emp, opsLeft, prevSync>>

\* The provisioning of a run: faulty answers, and calls of ensure_badges
\* and ensure_metadata_policy.
MaxProvFaults == 1
MaxProvOps == 2

\* The personas of the catalog: one named "Default", one that is not.
DefaultPersona ==
    [guid |-> "p1", name |-> <<"D","e","f","a","u","l","t">>,
     qualifiedName |-> <<"d","/","p","1","/">>]
AnalystsPersona ==
    [guid |-> "p2", name |-> <<"A","n","a","l","y","s","t","s">>,
     qualifiedName |-> <<>>]
PersonaCatalogs ==
    { <<>>, <<DefaultPersona>>, <<AnalystsPersona>>,
      <<AnalystsPersona, DefaultPersona>> }

\* The policy an earlier run created on the persona, a policy an
\* administrator created by hand, and a policy of another system.
EnginePolicy(persona) ==
    [name |-> POLICY_NAME,
     qualifiedName |-> PolicyQn(persona.guid, persona.qualifiedName),
     persona |-> persona.guid]
ManualPolicy(persona) ==
    [name |-> <<"T","L","X","-","V","i","e","w">>, qualifiedName |-> <<"manual">>,
     persona |-> persona.guid]
ForeignPolicy(persona) ==
    [name |-> <<"R","e","a","d"," ","a","l","l">>, qualifiedName |-> <<"foreign">>,
     persona |-> persona.guid]
PolicyCatalogs(personas) ==
    {<<>>}
    \cup UNION {{ <<EnginePolicy(personas[i])>>, <<ManualPolicy(personas[i])>>,
                  <<ForeignPolicy(personas[i])>> } : i \in 1..Len(personas)}

\* The badges of the catalog: the Scan Status badge of an earlier release
\* with one condition, a badge of another system, the Total Risks badge as
\* this release sends it.
StaleBadge ==
    [guid |-> <<"b", 91>>, name |-> "Scan Status",
     qualifiedName |-> BadgeQn("cm1", <<"#", "Scan Status">>),
     conditions |-> SubSeq(BadgeConditions(BADGE_DEFS[1]), 1, 1)]
ForeignBadge ==
    [guid |-> <<"b", 92>>, name |-> "Freshness",
     qualifiedName |-> BadgeQn("cm0", <<"#", "Freshness">>),
     conditions |-> <<>>]
CurrentBadge ==
    [guid |-> <<"b", 93>>, name |-> "Total Risks",
     qualifiedName |-> BadgeQn("cm1", <<"#", "Total Risks">>),
     conditions |-> BadgeConditions(BADGE_DEFS[3])]
BadgeCatalogs ==
    { <<>>, <<StaleBadge>>, <<ForeignBadge, CurrentBadge>> }

\* The client after ensure_metadata_def, before the badges and the policy.
InitProvision ==
    /\ InitClient
    /\ cat_classdefs = <<>>
    /\ cat_tags = [g \in Assets |-> {}]
    /\ cat_hashes = TRUE
    /\ InitControl
    /\ NoResponses
    /\ NoRun
    /\ cat_personas \in PersonaCatalogs
    /\ cat_policies \in PolicyCatalogs(cat_personas)
    /\ cat_badges \in BadgeCatalogs
    /\ emp = NoEmp
    /\ ebd = NoEbd
    /\ trail403 = 0
    /\ tripped = FALSE
    /\ prevSync = NoPrev
    /\ lastRet = [op |-> "", val |-> None]
    /\ outs = <<>>
    /\ ud = NoUd
    /\ cat_bm = <<>>
    /\ cat_replaces = FALSE
    /\ emd = NoEmd
    /\ faultsLeft = MaxProvFaults
    /\ opsLeft = MaxProvOps
    /\ NoTagId
    /\ NoDomain
    /\ \E sch \in SchemaStates :
         /\ cm_internal_name = sch.cm
         /\ attr_names = sch.attrs
    /\ risk_summary = <<>>
    /\ ua = NoUa
    /\ calls = 0

NextProvision ==
    \/ HttpAttempt
    \/ EnsureMetadataPolicyBegin
    \/ EmpAfterFind
    \/ EmpAfterCheck
    \/ EmpAfterConn
    \/ EmpAfterCreate
    \/ EnsureBadgesBegin
    \/ EbdAfterFind
    \/ EbdAfterWrite

SpecProvision == InitProvision /\ [][NextProvision]_vars

(***************************************************************************)
(* The catalog shows a badge: the rules from the top, the first match wins *)
(***************************************************************************)
MaxBadgeValue == 50

\* The number a condition value of a count stands for.
IntOf(text) == CHOOSE n \in 0..9 : NumStr(n) = text

\* The condition value that a status text equals: the quoted text.  The
\* texts other than the verified one stand as one.
QuotedText(status) ==
    IF status = VerifiedStatus THEN VerifiedQuoted ELSE "\"(risks)\""

\* Whether a rule matches the value of a count, and that of a status.
NumberMatches(condition, number) ==
    LET op == condition.badgeConditionOperator
        v == IntOf(condition.badgeConditionValue)
    IN  CASE op = "eq" -> number = v
          [] op = "neq" -> number # v
          [] op = "gte" -> number >= v
          [] op = "gt" -> number > v
          [] op = "lte" -> number <= v
          [] op = "lt" -> number < v

TextMatches(condition, text) ==
    LET op == condition.badgeConditionOperator
        v == condition.badgeConditionValue
    IN  CASE op = "eq" -> QuotedText(text) = v
          [] op = "neq" -> QuotedText(text) # v

\* The rule that colours the badge: the first that matches, 0 for none.
FirstRule(matching) ==
    IF matching = {} THEN 0
    ELSE CHOOSE k \in matching : \A j \in matching : k <= j

\* The badges of counts, and the status texts of the summaries.
CountBadges == {"High Severity", "Total Risks"}
StatusTexts == {ScanStatus(s) : s \in Summaries}

\* What the catalog shows for a badge on an asset with the value.
ShownFor(badge, number, text) ==
    LET matching ==
            {k \in 1..Len(badge.conditions) :
                IF badge.name \in CountBadges
                THEN NumberMatches(badge.conditions[k], number)
                ELSE TextMatches(badge.conditions[k], text)}
        rule == FirstRule(matching)
    IN  [badge |-> badge.name, number |-> number, text |-> text,
         rule |-> rule,
         colour |-> IF rule = 0 THEN ""
                    ELSE badge.conditions[rule].badgeConditionColorhex]

\* The catalog after an ensure_badges that created the three badges from
\* BADGE_DEFS, the schema resolved in full.
InitBadge ==
    /\ InitClient
    /\ cat_classdefs = <<>>
    /\ cat_tags = [g \in Assets |-> {}]
    /\ cat_hashes = TRUE
    /\ InitControl
    /\ NoResponses
    /\ NoRun
    /\ cat_personas = <<>>
    /\ cat_policies = <<>>
    /\ emp = NoEmp
    /\ ebd = NoEbd
    /\ trail403 = 0
    /\ tripped = FALSE
    /\ prevSync = NoPrev
    /\ lastRet = [op |-> "", val |-> None]
    /\ outs = <<>>
    /\ ud = NoUd
    /\ cat_bm = <<FullDef>>
    /\ cat_replaces = FALSE
    /\ emd = NoEmd
    /\ faultsLeft = 0
    /\ opsLeft = 0
    /\ NoTagId
    /\ NoDomain
    /\ cm_internal_name = "cm1"
    /\ attr_names = ResolveAttrNames(FullDef)
    /\ cat_badges = [i \in 1..Len(BADGE_DEFS) |->
                        [BadgePayload(BADGE_DEFS[i], <<>>)
                            EXCEPT !.guid = <<"b", i>>]]
    /\ risk_summary = <<>>
    /\ ua = NoUa
    /\ calls = 0

\* An asset page is opened: the catalog shows one of the badges for the
\* value the asset has.
CatalogShowsBadge ==
    /\ pc = "idle"
    /\ \E i \in 1..Len(cat_badges) :
          IF cat_badges[i].name \in CountBadges
          THEN \E number \in 0..MaxBadgeValue :
                  shown' = ShownFor(cat_badges[i], number, <<>>)
          ELSE \E text \in StatusTexts :
                  shown' = ShownFor(cat_badges[i], 0, text)
    /\ UNCHANGED <<nameA, nameB, idA, idB, tpc, clientvars, catvars, ctlvars,
                   histvars, domvars, updvars, morevars, calls>>

NextBadge == CatalogShowsBadge

SpecBadge == InitBadge /\ [][NextBadge]_vars

(***************************************************************************)
(* main                                                                    *)
(***************************************************************************)
\* A mutant of the initialization block: the registry is built first.
INIT_ORDER_RegistryFirst ==
    <<"build_tlx_tag_registry", "upload_images", "ensure_metadata_def",
      "ensure_badges", "ensure_metadata_policy", "get_asset_map">>

\* The calls of the initialization block of main, in order.
INIT_ORDER ==
    <<"upload_images", "ensure_metadata_def", "ensure_badges",
      "ensure_metadata_policy", "build_tlx_tag_registry", "get_asset_map">>

\* The call main makes after a call of the initialization block returned:
\* the next of the block, or the scan.
AfterInit(name) ==
    LET i == CHOOSE j \in 1..Len(INIT_ORDER) : INIT_ORDER[j] = name
    IN  IF i < Len(INIT_ORDER) THEN INIT_ORDER[i + 1] ELSE "scan"

\* main after a call of the initialization block raised: the handler turns
\* the sync off, and the scan follows.
InitRaised(m) ==
    [m EXCEPT !.atlan_enabled = FALSE, !.init_failed = TRUE, !.at = "scan"]

\* main makes the call.
Calling(m, name) == [m EXCEPT !.log = Append(@, name)]

\* What no call of main changes by itself.
mainkeep == <<created_tags, consecutive_403, catvars, edt, syn, faultsLeft,
              opsLeft, trail403, tripped, lastRet, tagvars, cat_domains,
              dom_in, dom_out, cm_internal_name, attr_names, outs, cat_bm,
              cat_replaces, since2xx, ensured, returned, provcat,
              cat_personas, cat_assets>>

\* upload_images uses no _request: it returns an image id or None, or lets
\* the OSError of os.makedirs through.
MainUploadImages ==
    /\ pc = "idle"
    /\ mn.at = "upload_images"
    /\ \E out \in {"raise", "", "img1"} :
         mn' = IF out = "raise"
               THEN InitRaised(Calling(mn, "upload_images"))
               ELSE [Calling(mn, "upload_images") EXCEPT
                        !.image_id = out, !.at = AfterInit("upload_images")]
    /\ prevSync' = NoPrev
    /\ UNCHANGED <<mainkeep, tlx_tag_names, rebuilt, domain_guid_map,
                   risk_summary, ua, ud, emd, emp, ebd, calls, pc, req>>

MainEnsureMetadataDef ==
    /\ pc = "idle"
    /\ mn.at = "ensure_metadata_def"
    /\ EmdStart(mn.image_id)
    /\ mn' = [Calling(mn, "ensure_metadata_def") EXCEPT
                 !.at = AfterInit("ensure_metadata_def")]
    /\ prevSync' = NoPrev
    /\ UNCHANGED <<mainkeep, tlx_tag_names, rebuilt, domain_guid_map,
                   risk_summary, ua, ud, emp, ebd, calls>>

MainEnsureBadges ==
    /\ pc = "idle"
    /\ mn.at = "ensure_badges"
    /\ EbdStart
    /\ mn' = [Calling(mn, "ensure_badges") EXCEPT
                 !.at = AfterInit("ensure_badges")]
    /\ prevSync' = NoPrev
    /\ UNCHANGED <<mainkeep, tlx_tag_names, rebuilt, domain_guid_map,
                   risk_summary, ua, ud, emd, emp, calls>>

MainEnsureMetadataPolicy ==
    /\ pc = "idle"
    /\ mn.at = "ensure_metadata_policy"
    /\ EmpStart
    /\ mn' = [Calling(mn, "ensure_metadata_policy") EXCEPT
                 !.at = AfterInit("ensure_metadata_policy")]
    /\ prevSync' = NoPrev
    /\ UNCHANGED <<mainkeep, tlx_tag_names, rebuilt, domain_guid_map,
                   risk_summary, ua, ud, emd, ebd, calls>>

MainBuildRegistry ==
    /\ pc = "idle"
    /\ mn.at = "build_tlx_tag_registry"
    /\ BuildRegistryStart
    /\ mn' = [Calling(mn, "build_tlx_tag_registry") EXCEPT
                 !.at = AfterInit("build_tlx_tag_registry")]
    /\ prevSync' = NoPrev
    /\ UNCHANGED <<mainkeep, domain_guid_map, risk_summary, ua, ud, emd,
                   emp, ebd, calls>>

(***************************************************************************)
(* get_asset_map                                                           *)
(***************************************************************************)
\* str.upper() of the database names of the catalog and of the scan.
UpperName ==
    [n \in {"", "sales", "Sales", "SALES", "hr", "HR"} |->
        IF n \in {"sales", "Sales", "SALES"} THEN "SALES"
        ELSE IF n \in {"hr", "HR"} THEN "HR" ELSE ""]

\* The key of an entity in the mapping: a null name under no database name
\* has no upper().
RaisesOnName(entity) ==
    entity.databaseName \in {None, ""} /\ entity.name = None

DbOf(entity) ==
    UpperName[IF entity.databaseName \in {None, ""} THEN entity.name
              ELSE entity.databaseName]

\* mapping[db].append(entry), on a dict held as the sequence of its items.
MapAppend(mapping, db, entry) ==
    IF \E i \in 1..Len(mapping) : mapping[i].db = db
    THEN [i \in 1..Len(mapping) |->
            IF mapping[i].db = db
            THEN [mapping[i] EXCEPT !.entries = Append(@, entry)]
            ELSE mapping[i]]
    ELSE Append(mapping, [db |-> db, entries |-> <<entry>>])

\* The loop of get_asset_map over the entities of a page.
RECURSIVE AssetMapFrom(_, _)
AssetMapFrom(mapping, entities) ==
    IF entities = <<>> THEN mapping
    ELSE LET entity == Head(entities)
             entry == [guid |-> entity.guid,
                       domain |-> ResolveDomainFromGuids(domain_guid_map,
                                                         entity.domainGUIDs),
                       typeName |-> entity.typeName,
                       name |-> entity.name,
                       qualifiedName |-> entity.qualifiedName]
         IN  AssetMapFrom(
                 IF DbOf(entity) = "" \/ entity.guid = "" THEN mapping
                 ELSE MapAppend(mapping, DbOf(entity), entry),
                 Tail(entities))

\* get_asset_map from its call to the search of _build_domain_guid_map.
MainGetAssetMap ==
    /\ pc = "idle"
    /\ mn.at = "get_asset_map"
    /\ BuildDomainGuidMapStart
    /\ mn' = [Calling(mn, "get_asset_map") EXCEPT !.at = "in_get_asset_map"]
    /\ prevSync' = NoPrev
    /\ UNCHANGED <<mainkeep, tlx_tag_names, rebuilt, risk_summary, ua, ud,
                   emd, emp, ebd, calls>>

\* The search of the first page, after _build_domain_guid_map returned.
GetAssetMapSearch ==
    /\ pc = "idle"
    /\ mn.at = "in_get_asset_map"
    /\ req' = NewReq("POST", "asset_search", <<>>)
    /\ pc' = "gam_search"
    /\ UNCHANGED <<mainkeep, tlx_tag_names, rebuilt, domain_guid_map,
                   risk_summary, ua, ud, emd, emp, ebd, calls, mn, prevSync>>

\* The page is the last one: get_asset_map returns the mapping to main, or
\* lets the AttributeError of upper() through.
GetAssetMapAfterSearch ==
    /\ pc = "gam_search"
    /\ req.st = "done"
    /\ LET entities == IF req.ret = "json" THEN req.resp ELSE <<>>
       IN  mn' = IF \E i \in 1..Len(entities) : RaisesOnName(entities[i])
                 THEN InitRaised(mn)
                 ELSE [mn EXCEPT !.atlan_map = AssetMapFrom(<<>>, entities),
                                 !.at = AfterInit("get_asset_map")]
    /\ pc' = "idle"
    /\ req' = NoReq
    /\ UNCHANGED <<mainkeep, tlx_tag_names, rebuilt, domain_guid_map,
                   risk_summary, ua, ud, emd, emp, ebd, calls, prevSync>>

(***************************************************************************)
(* main: the scan of the accounts                                          *)
(***************************************************************************)
\* atlan_map.get(db): the entries under the key, none when it is no key.
MapEntries(mapping, db) ==
    IF \E i \in 1..Len(mapping) : mapping[i].db = db
    THEN mapping[CHOOSE i \in 1..Len(mapping) : mapping[i].db = db].entries
    ELSE <<>>

\* resolve_domains_for_db: the set of the domains of the entries of the
\* database other than "Unassigned".
ResolveDomainsForDb(db, mapping) ==
    {MapEntries(mapping, db)[i].domain : i \in 1..Len(MapEntries(mapping, db))}
        \ {Unassigned}

\* The orders in which the loop over a set may meet its members.
OrdersOf(S) ==
    {q \in [1..Cardinality(S) -> S] : \A x \in S : \E i \in DOMAIN q : q[i] = x}

\* Counter(found_domains).most_common(1)[0][0]: of the domains met most
\* often, the one met first.
CountIn(found_domains, d) ==
    Cardinality({i \in 1..Len(found_domains) : found_domains[i] = d})

MostCommon(found_domains) ==
    LET best == {i \in 1..Len(found_domains) :
                    \A j \in 1..Len(found_domains) :
                        CountIn(found_domains, found_domains[j])
                            <= CountIn(found_domains, found_domains[i])}
    IN  found_domains[CHOOSE i \in best : \A j \in best : i <= j]

\* target_domain of an account.
TargetDomain(found_domains) ==
    IF found_domains # <<>> THEN MostCommon(found_domains) ELSE Unassigned

\* domain_groups[target_domain].append(tree), on a dict held as the sequence
\* of its items.
GroupAppend(groups, target_domain, tree) ==
    IF \E i \in 1..Len(groups) : groups[i].domain = target_domain
    THEN [i \in 1..Len(groups) |->
            IF groups[i].domain = target_domain
            THEN [groups[i] EXCEPT !.accounts = Append(@, tree)]
            ELSE groups[i]]
    ELSE Append(groups, [domain |-> target_domain, accounts |-> <<tree>>])

\* The next account of the scan: no tree skips it; else its databases are
\* walked when the sync is on.
MainScanAccount ==
    /\ pc = "idle"
    /\ mn.at = "scan"
    /\ mn.accounts # <<>>
    /\ LET account == Head(mn.accounts)
       IN  IF ~account.has_tree
           THEN /\ mn' = [mn EXCEPT !.accounts = Tail(@)]
                /\ UNCHANGED risk_summary
           ELSE /\ risk_summary' = account.risks_summary
                /\ mn' = [mn EXCEPT !.account = account,
                                    !.found_domains = <<>>,
                                    !.dbs = IF mn.atlan_enabled
                                            THEN account.dbs ELSE <<>>,
                                    !.at = "db"]
    /\ UNCHANGED <<mainkeep, tlx_tag_names, rebuilt, domain_guid_map, ua, ud,
                   emd, emp, ebd, calls, pc, req, prevSync>>

\* The next database of the account, or, after the last, the domain of the
\* account.
MainScanDb ==
    /\ pc = "idle"
    /\ mn.at = "db"
    /\ IF mn.dbs = <<>>
       THEN mn' = [mn EXCEPT
                      !.domain_groups =
                          GroupAppend(@, TargetDomain(mn.found_domains),
                                      mn.account),
                      !.accounts = Tail(@), !.account = <<>>,
                      !.found_domains = <<>>, !.at = "scan"]
       ELSE LET db_name == UpperName[Head(mn.dbs)]
            IN  IF MapEntries(mn.atlan_map, db_name) = <<>>
                THEN mn' = [mn EXCEPT !.dbs = Tail(@)]
                ELSE \E q \in OrdersOf(ResolveDomainsForDb(db_name,
                                                          mn.atlan_map)) :
                        mn' = [mn EXCEPT
                                  !.found_domains = @ \o q,
                                  !.entries = MapEntries(mn.atlan_map, db_name),
                                  !.synced = 0, !.at = "entry"]
    /\ UNCHANGED <<mainkeep, tlx_tag_names, rebuilt, domain_guid_map,
                   risk_summary, ua, ud, emd, emp, ebd, calls, pc, req,
                   prevSync>>

\* update_asset for the next entry of the database.
MainUpdateAsset ==
    /\ pc = "idle"
    /\ mn.at = "entry"
    /\ mn.entries # <<>>
    /\ LET entry == Head(mn.entries)
       IN  UaStart(entry.guid, entry.typeName, entry.name,
                   entry.qualifiedName)
    /\ calls' = 0
    /\ mn' = [Calling(mn, "update_asset") EXCEPT
                 !.entries = Tail(@), !.at = "updated"]
    /\ prevSync' = NoPrev
    /\ UNCHANGED <<mainkeep, tlx_tag_names, rebuilt, domain_guid_map,
                   risk_summary, ud, emd, emp, ebd>>

\* main finds the abort flag up: the number of calls it has made, kept from
\* the first time on.
AbortSeen(m) == IF m.abort_seen = 0 THEN Len(m.log) ELSE m.abort_seen

\* A mutant of the test after the entries: the sync stays on.
EnabledAfterDbKept(atlan_enabled, abort) == atlan_enabled

\* atlan_enabled after the test of the abort flag that follows the entries
\* of a database.
EnabledAfterDb(atlan_enabled, abort) == atlan_enabled /\ ~abort

\* After update_asset returned: a failure under the abort flag leaves the
\* loop over the entries.
MainAfterUpdate ==
    /\ pc = "idle"
    /\ mn.at = "updated"
    /\ mn' = IF lastRet.val = "True"
             THEN [mn EXCEPT !.synced = @ + 1, !.at = "entry"]
             ELSE IF ShouldAbort
             THEN [mn EXCEPT !.at = "after_db",
                             !.abort_seen = AbortSeen(mn)]
             ELSE [mn EXCEPT !.at = "entry"]
    /\ UNCHANGED <<mainkeep, tlx_tag_names, rebuilt, domain_guid_map,
                   risk_summary, ua, ud, emd, emp, ebd, calls, pc, req,
                   prevSync>>

\* After the entries of a database: the abort flag turns the sync off and
\* leaves the loop over the databases.
MainAfterDb ==
    /\ pc = "idle"
    /\ \/ mn.at = "entry" /\ mn.entries = <<>>
       \/ mn.at = "after_db"
    /\ mn' = IF ShouldAbort
             THEN [mn EXCEPT !.atlan_enabled =
                                 EnabledAfterDb(mn.atlan_enabled, ShouldAbort),
                             !.dbs = <<>>, !.entries = <<>>, !.at = "db",
                             !.abort_seen = AbortSeen(mn)]
             ELSE [mn EXCEPT !.dbs = Tail(@), !.entries = <<>>, !.at = "db"]
    /\ UNCHANGED <<mainkeep, tlx_tag_names, rebuilt, domain_guid_map,
                   risk_summary, ua, ud, emd, emp, ebd, calls, pc, req,
                   prevSync>>

(***************************************************************************)
(* main: the report and the domains                                        *)
(***************************************************************************)
\* The order of str on the domain names, and the key of the sort:
\* (d == "Unassigned", d).
NameRank ==
    [d \in DomainNames \cup {"Ghost", Unassigned} |->
        CASE d = "Finance" -> 1 [] d = "Ghost" -> 2 [] d = "Legal" -> 3
          [] d = "Ops" -> 4 [] d = "Sales" -> 5 [] OTHER -> 6]

SortsBefore(d, e) ==
    IF (d = Unassigned) # (e = Unassigned) THEN e = Unassigned
    ELSE NameRank[d] < NameRank[e]

\* dcats[cat] = dcats.get(cat, 0) + cnt over the items of the categories.
RECURSIVE AddCategories(_, _)
AddCategories(dcats, items) ==
    IF items = <<>> THEN dcats
    ELSE LET it == Head(items)
             added ==
                 IF \E i \in 1..Len(dcats) : dcats[i].cat = it.cat
                 THEN [i \in 1..Len(dcats) |->
                         IF dcats[i].cat = it.cat
                         THEN [dcats[i] EXCEPT !.count = @ + it.count]
                         ELSE dcats[i]]
                 ELSE Append(dcats, it)
         IN  AddCategories(added, Tail(items))

\* The rollup of the accounts of a domain.
RECURSIVE RollupFrom(_, _)
RollupFrom(rollup, accounts) ==
    IF accounts = <<>> THEN rollup
    ELSE LET rs == Head(accounts).risks_summary
         IN  RollupFrom([total |-> rollup.total + rs.total,
                         high |-> rollup.high + rs.high,
                         medium |-> rollup.medium + rs.medium,
                         low |-> rollup.low + rs.low,
                         categories |-> AddCategories(rollup.categories,
                                                      rs.categories)],
                        Tail(accounts))

Rollup(accounts) ==
    RollupFrom([total |-> 0, high |-> 0, medium |-> 0, low |-> 0,
                categories |-> <<>>], accounts)

\* final_report_data: the domains in sorted order, each with its rollup.
FinalReportData(groups) ==
    LET place(i) == 1 + Cardinality({j \in 1..Len(groups) :
                                        SortsBefore(groups[j].domain,
                                                    groups[i].domain)})
        at(k) == CHOOSE i \in 1..Len(groups) : place(i) = k
    IN  [k \in 1..Len(groups) |->
            [name |-> groups[at(k)].domain,
             rollup |-> Rollup(groups[at(k)].accounts),
             children |-> groups[at(k)].accounts]]

\* After the last account: the report data, and the domains to write when
\* the sync is on.
MainReport ==
    /\ pc = "idle"
    /\ mn.at = "scan"
    /\ mn.accounts = <<>>
    /\ mn' = [mn EXCEPT
                 !.final_report_data = FinalReportData(mn.domain_groups),
                 !.todo = IF mn.atlan_enabled
                          THEN FinalReportData(mn.domain_groups) ELSE <<>>,
                 !.at = "domains"]
    /\ UNCHANGED <<mainkeep, tlx_tag_names, rebuilt, domain_guid_map,
                   risk_summary, ua, ud, emd, emp, ebd, calls, pc, req,
                   prevSync>>

\* update_domain for the next domain of the report; "Unassigned" has none.
MainUpdateDomain ==
    /\ pc = "idle"
    /\ mn.at = "domains"
    /\ mn.todo # <<>>
    /\ LET domain_data == Head(mn.todo)
       IN  IF domain_data.name = Unassigned
           THEN /\ mn' = [mn EXCEPT !.todo = Tail(@)]
                /\ UNCHANGED <<ua, ud, pc, req, calls>>
           ELSE /\ UdStartWith(domain_data.rollup, domain_data.name)
                /\ calls' = 0
                /\ mn' = [Calling(mn, "update_domain") EXCEPT
                             !.todo = Tail(@)]
    /\ prevSync' = NoPrev
    /\ UNCHANGED <<mainkeep, tlx_tag_names, rebuilt, domain_guid_map,
                   risk_summary, emd, emp, ebd>>

\* The report is rendered: main returns.
MainDone ==
    /\ pc = "idle"
    /\ mn.at = "domains"
    /\ mn.todo = <<>>
    /\ mn' = [mn EXCEPT !.at = "done"]
    /\ UNCHANGED <<mainkeep, tlx_tag_names, rebuilt, domain_guid_map,
                   risk_summary, ua, ud, emd, emp, ebd, calls, pc, req,
                   prevSync>>

(***************************************************************************)
(* A run of main                                                           *)
(***************************************************************************)
\* The runs of main: the accounts of the tenant and the faulty answers of
\* the catalog.
MaxAccounts == 1
MaxMainFaults == 1

\* The asset entities of the catalog: a table and a view of the database
\* Sales in the domain Finance, the database itself in no domain, and an
\* entity whose name is null.
TableOrders ==
    [guid |-> "g1", typeName |-> "Table", name |-> "orders",
     databaseName |-> "Sales", qualifiedName |-> "db/orders",
     domainGUIDs |-> [kind |-> "list", val |-> <<"ga">>]]
DatabaseSales ==
    [guid |-> "gx", typeName |-> "Database", name |-> "sales",
     databaseName |-> None, qualifiedName |-> "",
     domainGUIDs |-> [kind |-> "none", val |-> <<>>]]
NullNamed ==
    [guid |-> "g1", typeName |-> "Schema", name |-> None,
     databaseName |-> None, qualifiedName |-> "db/s",
     domainGUIDs |-> [kind |-> "none", val |-> <<>>]]

\* The catalogs a run starts against: a new tenant; one an earlier release
\* provisioned and tagged; one whose definition lost its attributes and whose
\* search returns an entity without a name.
MainCatalogs ==
    { [bm |-> <<>>, classdefs |-> <<ForeignDef>>, tags |-> {ForeignTag},
       policies |-> <<>>, badges |-> <<>>,
       assets |-> <<TableOrders>>],
      [bm |-> <<FirstReleaseDef>>,
       classdefs |-> <<HashedHighRiskDef, ForeignDef, StaleDef>>,
       tags |-> {HashedName(HighRiskName), ForeignTag, MakeTagId(CatStale)},
       policies |-> <<ManualPolicy(DefaultPersona)>>,
       badges |-> <<StaleBadge>>,
       assets |-> <<TableOrders, DatabaseSales>>],
      [bm |-> <<EmptyDef>>, classdefs |-> <<ForeignDef>>, tags |-> {},
       policies |-> <<>>, badges |-> <<>>,
       assets |-> <<TableOrders, NullNamed>>] }

\* The accounts of the tenant: one with findings, one without, one whose
\* hierarchy could not be built.
AccountKinds ==
    { [name |-> "acct1", has_tree |-> TRUE, dbs |-> <<"Sales">>,
       risks_summary |->
           Summarize(<< [severity |-> SevHigh, category |-> CatPii],
                        [severity |-> SevLow, category |-> CatStale] >>)],
      [name |-> "acct2", has_tree |-> TRUE, dbs |-> <<"hr", "sales">>,
       risks_summary |-> Summarize(<<>>)],
      [name |-> "acct3", has_tree |-> FALSE, dbs |-> <<>>,
       risks_summary |-> Summarize(<<>>)] }

MainGuids == Assets \cup Guids

\* main after AtlanClient() and _is_atlan_configured().
InitMain ==
    /\ InitClient
    /\ InitControl
    /\ NoResponses
    /\ \E c \in MainCatalogs :
         /\ cat_bm = c.bm
         /\ cat_classdefs = c.classdefs
         /\ cat_tags = [g \in MainGuids |-> c.tags]
         /\ cat_policies = c.policies
         /\ cat_badges = c.badges
         /\ cat_assets = c.assets
    /\ cat_hashes = TRUE
    /\ cat_replaces = FALSE
    /\ cat_personas = <<DefaultPersona>>
    /\ cat_domains = << [guid |-> "ga", name |-> "Finance",
                         qualifiedName |-> "d/fin"],
                        [guid |-> "gb", name |-> "Ops",
                         qualifiedName |-> "d/ops"] >>
    /\ domain_guid_map = <<>>
    /\ dom_in = [kind |-> "none", val |-> <<>>]
    /\ dom_out = None
    /\ emp = NoEmp
    /\ ebd = NoEbd
    /\ emd = NoEmd
    /\ ud = NoUd
    /\ trail403 = 0
    /\ tripped = FALSE
    /\ prevSync = NoPrev
    /\ lastRet = [op |-> "", val |-> None]
    /\ outs = <<>>
    /\ faultsLeft = MaxMainFaults
    /\ opsLeft = 0
    /\ NoTagId
    /\ NoUpdate
    /\ calls = 0
    /\ \E accounts \in SeqUpTo(AccountKinds, MaxAccounts),
          atlan_enabled \in BOOLEAN :
         mn = [NoMain EXCEPT !.accounts = accounts,
                             !.atlan_enabled = atlan_enabled,
                             !.at = IF atlan_enabled THEN INIT_ORDER[1]
                                    ELSE "scan"]

NextMain ==
    \/ HttpAttemptDeniable
    \/ MainUploadImages
    \/ MainEnsureMetadataDef
    \/ EmdAfterFind
    \/ EmdAfterAdd
    \/ EmdAfterRefresh
    \/ EmdAfterWiden
    \/ EmdAfterOptions
    \/ EmdDelete
    \/ EmdAfterCreate
    \/ EmdAfterVerify
    \/ MainEnsureBadges
    \/ EbdAfterFind
    \/ EbdAfterWrite
    \/ MainEnsureMetadataPolicy
    \/ EmpAfterFind
    \/ EmpAfterCheck
    \/ EmpAfterConn
    \/ EmpAfterCreate
    \/ MainBuildRegistry
    \/ BuildRegistryAfterGet
    \/ MainGetAssetMap
    \/ BuildDomainGuidMapAfterSearch
    \/ GetAssetMapSearch
    \/ GetAssetMapAfterSearch
    \/ MainScanAccount
    \/ MainScanDb
    \/ MainUpdateAsset
    \/ MainAfterUpdate
    \/ MainAfterDb
    \/ UaAfterBm
    \/ EdtAfterGet
    \/ EdtAfterPost
    \/ UaAfterRollup
    \/ UaAfterCategory
    \/ SyncAfterGet
    \/ SyncAfterDel
    \/ SyncAfterAdd
    \/ UaAfterSync
    \/ UaAfterAnnouncement
    \/ UpdateAssetReturn
    \/ MainReport
    \/ MainUpdateDomain
    \/ UpdateDomainReturn
    \/ MainDone

SpecMain == InitMain /\ [][NextMain]_vars

(***************************************************************************)
(* The scan of a run whose token loses its rights                          *)
(***************************************************************************)
\* The accounts of the tenant and the permission denials of the scan.
MaxScanAccounts == 2
MaxScanDenials == 3

\* The catalog answers the request, or denies it.
ScanOutcomes == {"s200", "s403"}
HttpAttemptScan == HttpAttemptOf(ScanOutcomes)

\* The rollup tag of a scan without findings, as an earlier run created it.
VerifiedDef == [name |-> MakeTagId(VerifiedName), displayName |-> VerifiedName]

\* The accounts of the scan: one has a finding of a category the catalog has
\* no tag for, the other has none and names a database the catalog does not
\* hold before the one it holds.
ScanAccountKinds ==
    { [name |-> "acct1", has_tree |-> TRUE, dbs |-> <<"Sales">>,
       risks_summary |->
           Summarize(<< [severity |-> SevHigh, category |-> CatPii] >>)],
      [name |-> "acct2", has_tree |-> TRUE, dbs |-> <<"hr", "sales">>,
       risks_summary |-> Summarize(<<>>)] }

\* main after an initialization block that went through: the schema is
\* resolved, the registry holds the tags of the catalog, the domain index
\* and the asset map are built.
InitScanWith(accountSeqs, denials) ==
    /\ consecutive_403 = 0
    /\ cat_classdefs = <<HashedHighRiskDef, ForeignDef, VerifiedDef>>
    /\ cat_tags = [g \in MainGuids |-> {ForeignTag, VerifiedDef.name}]
    /\ cat_hashes = TRUE
    /\ tlx_tag_names = RegistryOf(cat_classdefs)
    /\ created_tags = tlx_tag_names
    /\ InitControl
    /\ NoResponses
    /\ cat_bm = <<FullDef>>
    /\ cat_replaces = FALSE
    /\ cm_internal_name = "cm1"
    /\ attr_names = [k \in {ATTR_DEFS[i].key : i \in 1..Len(ATTR_DEFS)} |->
                        <<"#", (CHOOSE d \in Range(ATTR_DEFS) :
                                    d.key = k).display>>]
    /\ cat_personas = <<DefaultPersona>>
    /\ cat_policies = <<EnginePolicy(DefaultPersona)>>
    /\ cat_badges = <<>>
    /\ cat_assets = <<TableOrders, DatabaseSales>>
    /\ cat_domains = << [guid |-> "ga", name |-> "Finance",
                         qualifiedName |-> "d/fin"] >>
    /\ domain_guid_map = AddDomainEntities(<<>>, cat_domains)
    /\ dom_in = [kind |-> "none", val |-> <<>>]
    /\ dom_out = None
    /\ emp = NoEmp
    /\ ebd = NoEbd
    /\ emd = NoEmd
    /\ ud = NoUd
    /\ ua = NoUa
    /\ risk_summary = <<>>
    /\ trail403 = 0
    /\ tripped = FALSE
    /\ prevSync = NoPrev
    /\ lastRet = [op |-> "", val |-> None]
    /\ outs = <<>>
    /\ faultsLeft = denials
    /\ opsLeft = 0
    /\ NoTagId
    /\ calls = 0
    /\ \E accounts \in accountSeqs :
         mn = [NoMain EXCEPT !.accounts = accounts,
                             !.atlan_enabled = TRUE,
                             !.atlan_map = AssetMapFrom(<<>>, cat_assets),
                             !.log = INIT_ORDER,
                             !.at = "scan"]

InitScan ==
    InitScanWith(SeqUpTo(ScanAccountKinds, MaxScanAccounts), MaxScanDenials)

NextScan ==
    \/ HttpAttemptScan
    \/ MainScanAccount
    \/ MainScanDb
    \/ MainUpdateAsset
    \/ MainAfterUpdate
    \/ MainAfterDb
    \/ UaAfterBm
    \/ EdtAfterGet
    \/ EdtAfterPost
    \/ UaAfterRollup
    \/ UaAfterCategory
    \/ SyncAfterGet
    \/ SyncAfterDel
    \/ SyncAfterAdd
    \/ UaAfterSync
    \/ UaAfterAnnouncement
    \/ UpdateAssetReturn
    \/ MainReport
    \/ MainUpdateDomain
    \/ UpdateDomainReturn
    \/ MainDone

SpecScan == InitScan /\ [][NextScan]_vars

(***************************************************************************)
(* The scan and the report over the summaries of _summarize                *)
(***************************************************************************)
MaxReportAccounts == 2
MaxReportFindings == 1

\* The accounts of the report: one with a database of the asset map, under
\* every findings list of at most MaxReportFindings findings; one with a
\* database the asset map lacks; one without a hierarchy.
ReportAccountKinds ==
    { [name |-> "acct1", has_tree |-> TRUE, dbs |-> <<"Sales">>,
       risks_summary |-> Summarize(risks)] :
          risks \in SeqUpTo(FindingKinds, MaxReportFindings) }
    \cup
    { [name |-> "acct2", has_tree |-> TRUE, dbs |-> <<"hr">>,
       risks_summary |->
           Summarize(<< [severity |-> SevMedium, category |-> CatStale] >>)],
      [name |-> "acct3", has_tree |-> FALSE, dbs |-> <<>>,
       risks_summary |-> Summarize(<<>>)] }

\* main after an initialization block that went through; every request of
\* the run is answered with 200.
InitReport ==
    InitScanWith(SeqUpTo(ReportAccountKinds, MaxReportAccounts), 0)

SpecReport == InitReport /\ [][NextScan]_vars

\* The outcome of the last HTTP attempt of the bare call of _request.
LastOut == outs[Len(outs)]

\* The bare call of _request has returned to its caller.
RawDone == pc = "raw" /\ req.st = "done"

\* C11: _request never raises to its caller: whatever the HTTP attempts end
\* in, it returns the parsed JSON body or {"status": "ok"}, and those only
\* after a 2xx, or None.
RequestNeverRaises ==
    /\ req.ret \in {"none", "json", "ok"}
    /\ lastRet.op = "_request" => lastRet.val \in {"none", "json", "ok"}
    /\ RawDone =>
         /\ req.ret = "json" <=> LastOut = "s200"
         /\ req.ret = "ok" <=> LastOut = "s200e"

\* C11, the case: a connection error, then a 429, then a 200 whose body is no
\* JSON; the call returned None.
RequestAbsentOnMalformedBody ==
    /\ pc = "idle"
    /\ lastRet = [op |-> "_request", val |-> "none"]
    /\ outs = <<"conn", "s429", "s200bad">>

\* C12: a call of _request makes at most _MAX_RETRIES HTTP attempts whatever
\* they end in, returns None when the last of them ended in a 429, a 5xx or a
\* connection error, and every call returns.
RequestEndsWithinRetries ==
    /\ [](/\ Len(outs) <= MAX_RETRIES
          /\ req.attempt <= MAX_RETRIES
          /\ req.st = "pending" => req.attempt < MAX_RETRIES
          /\ (RawDone /\ Len(outs) = MAX_RETRIES
                /\ LastOut \in {"s429", "s5xx", "conn"}) => req.ret = "none")
    /\ (req.st = "pending") ~> (req.st = "done")

\* C12, the case: a 5xx, a 429 and a connection error used up the attempts.
RequestExhaustedByMix ==
    /\ RawDone
    /\ outs = <<"s5xx", "s429", "conn">>
    /\ req.ret = "none"

\* C13: an attempt that ends in a 403 is the last of its call, which returns
\* None, and it adds exactly one to the consecutive-403 counter.
ForbiddenIsNotRetried ==
    /\ []((pc = "raw" /\ req.st = "pending")
            => \A i \in 1..Len(outs) : outs[i] # "s403")
    /\ [][(Len(outs') = Len(outs) + 1 /\ outs'[Len(outs')] = "s403")
            => /\ req'.st = "done"
               /\ req'.ret = "none"
               /\ consecutive_403' = consecutive_403 + 1]_vars

\* C13, the case: the first attempt of a call got a 403 after an earlier
\* call got one.
ForbiddenOnFirstAttempt ==
    /\ RawDone
    /\ outs = <<"s403">>
    /\ consecutive_403 = 2

\* C14: an attempt that ends in a 429 is repeated in the same slot of the
\* retry loop: the call goes on and the slot is not used up.
RateLimitKeepsSlot ==
    [][(Len(outs') = Len(outs) + 1 /\ outs'[Len(outs')] = "s429")
         => (req'.st = "pending" /\ req'.attempt = req.attempt)]_vars
\* C15: the attribute write of update_asset carries a value for exactly the
\* internal names that _attr_names maps a key to, each the value of its key;
\* an update_asset that finds no key mapped returns False and sends nothing.
WritesOnlyMappedAttributes ==
    /\ pc = "ua_bm" =>
         /\ DOMAIN attr_names # {}
         /\ DOMAIN req.arg.values = {attr_names[k] : k \in DOMAIN attr_names}
         /\ \A k \in DOMAIN attr_names :
               req.arg.values[attr_names[k]] = AttrData(ua.summary, Now)[k]
    /\ (ua.guid # "" /\ DOMAIN attr_names = {}) =>
         (pc = "ua_ret" /\ ua.ret = "False" /\ calls = 0 /\ req.st = "idle")

\* C15, the case: three of the eight keys are mapped, and the catalog took
\* the write of their three values.
WroteThreeMappedAttributes ==
    /\ pc = "ua_bm"
    /\ req.st = "done"
    /\ req.applied
    /\ DOMAIN attr_names = {"total_risks", "high_severity", "risk_details"}
    /\ Cardinality(DOMAIN req.arg.values) = 3
\* The steps of update_asset in the order of the code, and what each one is
\* entered from: the tag step (the rollup tag, the category tags, the sync)
\* from an attribute write that returned a value, the sync from the tags of
\* that step, the announcement from the end of the sync.
UpdateStepsInOrder ==
    /\ [][(pc # "ua_bm" /\ pc' = "ua_bm") => pc = "idle"]_vars
    /\ [][(pc = "ua_bm" /\ pc' \notin {"ua_bm", "ua_ret"})
            => (req.ret # "none" /\ edt'.caller = "ua_rollup")]_vars
    /\ [][(syn.caller # "ua" /\ syn'.caller = "ua")
            => (pc = "edt_ret" /\ edt.caller \in {"ua_rollup", "ua_cat"})]_vars
    /\ [][(pc # "ua_ann" /\ pc' = "ua_ann")
            => (pc = "sync_ret" /\ syn.caller = "ua")]_vars

\* C16 as stated: the steps come in order, each entered from the one before
\* it, the tag sync only after an attribute write that succeeded and the
\* announcement only after a tag sync that succeeded: its read returned the
\* asset and the catalog applied every change it asked for.
AnnouncedOnlyAfterSyncSucceeded ==
    /\ UpdateStepsInOrder
    /\ [][(pc # "ua_ann" /\ pc' = "ua_ann")
            => (syn.read_ok /\ syn.applied)]_vars

\* C16 as the code has it: the steps come in order, and the tag sync and the
\* announcement are both issued only after an attribute write that
\* succeeded; the tag sync has no result that the announcement depends on.
StepsGatedOnAttributeWrite ==
    /\ UpdateStepsInOrder
    /\ []((pc \in {"ua_ann"} \cup EdtPcs \cup SyncPcs) => ua.result)
    /\ [][(pc = "ua_bm" /\ req.st = "done" /\ pc' # "ua_bm")
            => ua'.result = (req.ret # "none")]_vars

\* C16, the case: the announcement is being written although the tags the
\* sync was to put on the asset are not on it.
AnnouncedAfterFailedSync ==
    /\ pc = "ua_ann"
    /\ ua.result
    /\ ~(ua.desired \subseteq cat_tags[ua.guid])
\* The positions of the DomainIndex whose entry has the name update_domain
\* was called with.
NamedEntries ==
    {i \in 1..Len(domain_guid_map) :
        domain_guid_map[i].name = ud.domain_name}

FirstNamedEntry ==
    domain_guid_map[CHOOSE i \in NamedEntries : \A j \in NamedEntries : i <= j]

\* update_domain made no call and is about to return False.
DomainUpdateRefused ==
    pc = "ud_ret" /\ ua = NoUa /\ calls = 0 /\ req.st = "idle"

\* update_domain runs update_asset on the entity e under its own name.
DelegatedTo(e) ==
    /\ pc # "ud_ret"
    /\ ua.guid = e.guid
    /\ ua.type_name = "DataDomain"
    /\ ua.asset_name = ud.domain_name
    /\ ua.qualified_name = e.qualifiedName

\* What update_domain returns is False after its own refusal and the result
\* of update_asset otherwise.
ReturnsDelegateResult ==
    [][(ud.active /\ ~ud'.active)
         => lastRet' = [op |-> "update_domain",
                        val |-> IF pc = "ud_ret" THEN "False" ELSE ua.ret]]_vars

\* C17 as stated: update_domain makes no call and returns False when no
\* entry of the DomainIndex has the name, and with any entry of that name it
\* runs update_asset on the entity's GUID, type DataDomain, name and
\* qualified name, and returns its result.
DelegatesWheneverNamed ==
    /\ [](ud.active =>
            IF NamedEntries = {} THEN DomainUpdateRefused
            ELSE DelegatedTo(FirstNamedEntry))
    /\ ReturnsDelegateResult

\* C17 as the code has it: update_domain also makes no call and returns
\* False when the first entry of that name has an empty qualified name.
DelegatesWhenNamedAndQualified ==
    /\ [](ud.active =>
            IF NamedEntries = {} \/ FirstNamedEntry.qualifiedName = ""
            THEN DomainUpdateRefused
            ELSE DelegatedTo(FirstNamedEntry))
    /\ ReturnsDelegateResult

\* C17, the case: the index holds the domain Legal, which has no qualified
\* name, and update_domain("Legal") is about to return False.
DomainWithoutQualifiedNameRefused ==
    /\ ud.active
    /\ ud.domain_name = "Legal"
    /\ ud.domain_guid = "ga"
    /\ pc = "ud_ret"
\* The names of the attributes of a list.
AttrNamesOf(attributeDefs) ==
    {attributeDefs[i].name : i \in 1..Len(attributeDefs)}

\* C18: every update of the definition that ensure_metadata_def has in
\* flight (adding the missing attributes, widening the entity types, setting
\* the logo and the overview flags) sends an attribute list that holds every
\* attribute the definition of the catalog has at that time.
UpdatesCarryEveryAttribute ==
    (pc \in {"emd_add", "emd_widen", "emd_opts"} /\ req.st = "pending") =>
        \A i \in 1..Len(cat_bm) :
            cat_bm[i].name = req.arg.name =>
                AttrNamesOf(cat_bm[i].attributeDefs)
                    \subseteq AttrNamesOf(req.arg.attributeDefs)
\* A definition is applicable to entities: it has attributes, and each of
\* them carries applicableEntityTypes.
Applicable(d) ==
    /\ Len(d.attributeDefs) > 0
    /\ \A a \in Range(d.attributeDefs) : a.types \in {"some", "all"}

\* C19: ensure_metadata_def is about to delete a definition only when the
\* definition it found, which the catalog holds, is not applicable; no step
\* takes an applicable definition of this system out of the catalog; and a
\* found definition that is applicable is only patched.
NeverDeletesHealthyDefinition ==
    /\ [](pc = "emd_del" =>
            /\ emd.existing # <<>>
            /\ emd.existing[1] \in Range(cat_bm)
            /\ ~Applicable(emd.existing[1]))
    /\ []((emd.existing # <<>> /\ Applicable(emd.existing[1])) =>
            pc \in {"emd_add", "emd_refresh", "emd_widen", "emd_opts"})
    /\ [][\A d \in Range(cat_bm) :
            (d.displayName = CM_DISPLAY /\ Applicable(d)) =>
                \E e \in Range(cat_bm') : e.name = d.name]_vars

\* C19, the case: the definition of the first release was found, and the
\* catalog applied the update that widens its entity types.
FirstReleasePatched ==
    /\ pc = "emd_widen"
    /\ req.st = "done"
    /\ req.applied
    /\ emd.existing = <<FirstReleaseDef>>
    /\ \E d \in Range(cat_bm) : d.name = FirstReleaseDef.name
\* C20: once _sync_tags_on_asset has read the asset, the removal calls it
\* has issued name distinct tags of current_tlx - desired, the add call it
\* has issued carries all of desired - current_tlx, and when it returns it
\* has issued one removal call for each tag of the first set, one add call
\* if the second set is not empty, and no other call but the read.
SyncIssuesTheDifferences ==
    LET to_remove == syn.current_tlx \ syn.desired
        to_add == syn.desired \ syn.current_tlx
    IN  /\ pc \in {"sync_del", "sync_add", "sync_ret"} =>
             /\ syn.dels \subseteq to_remove
             /\ syn.adds \in {{}, to_add}
             /\ syn.ncalls = 1 + Cardinality(syn.dels)
                               + (IF syn.adds = {} THEN 0 ELSE 1)
        /\ pc = "sync_del" => (req.arg.tag \in syn.dels /\ syn.adds = {})
        /\ pc = "sync_add" => (req.arg.tags = to_add /\ syn.dels = to_remove)
        /\ pc = "sync_ret" =>
             /\ syn.dels = to_remove
             /\ syn.adds = to_add
             /\ (to_remove = {} /\ to_add = {}) => syn.ncalls = 1

\* C20, the case: a sync that found two stale tags on the asset and a tag
\* to add has returned after the read, two removal calls and one add call.
SyncRemovedTwoAndAdded ==
    /\ pc = "sync_ret"
    /\ Cardinality(syn.current_tlx \ syn.desired) = 2
    /\ syn.desired \ syn.current_tlx # {}
    /\ syn.ncalls = 4

\* The three category names of ensure_rollup_tag.
RollupNames == {HighRiskName, RisksDetectedName, VerifiedName}

\* Whether t is the identifier of the tag of a category: the one
\* _make_tag_id computes, or the name of a classification of the catalog
\* that is displayed under the category's name.
IsTagOf(t, category_name) ==
    \/ t = MakeTagId(category_name)
    \/ \E i \in 1..Len(cat_classdefs) :
          /\ cat_classdefs[i].name = t
          /\ cat_classdefs[i].displayName = category_name

\* The rollup tags among the desired tags of the running sync.
DesiredRollups == {t \in syn.desired : \E r \in RollupNames : IsTagOf(t, r)}

ClientErrorReturnsAtOnce ==
    /\ [][(/\ pc = "raw"
            /\ Len(outs') = Len(outs) + 1
            /\ outs'[Len(outs')] = "s4xx")
           => (/\ req'.st = "done"
               /\ req'.ret = "none"
               /\ consecutive_403' = consecutive_403)]_vars
    /\ []((RawDone /\ outs # <<>> /\ outs[1] = "s4xx") => Len(outs) = 1)

\* C23, the case: after two 403s a call was answered with a 404 on its
\* first attempt and has returned.
ClientErrorAfterTwoDenials ==
    /\ RawDone
    /\ outs = <<"s4xx">>
    /\ req.ret = "none"
    /\ consecutive_403 = 2

\* C24 as stated: the flag goes up only when the last three responses the
\* client received were 403s.
AbortTripsOnUnbrokenRun ==
    [][(~ShouldAbort /\ ShouldAbort') => trail403' >= ABORT_THRESHOLD]_vars

\* C24 as amended: the flag is up only if three 403s were received since
\* the last 2xx response, and it goes up in a step that receives a 403.
AbortNeedsThreeDenialsSinceSuccess ==
    /\ [](ShouldAbort => since2xx >= ABORT_THRESHOLD)
    /\ [][(~ShouldAbort /\ ShouldAbort') => trail403' >= 1]_vars

\* C24, the case: the flag went up on the third 403 since the last 2xx, and
\* a response that is neither a 403 nor a 2xx came between the three.
AbortTrippedOnBrokenRun ==
    /\ ShouldAbort
    /\ consecutive_403 = ABORT_THRESHOLD
    /\ trail403 = 2

\* C25: the announcement write is issued only for an asset that has a
\* display name and a qualified name; for any other, update_asset goes from
\* the end of the tag sync to its return without a request, and returns
\* True as it does after an announcement write.
AnnouncementNeedsBothNames ==
    /\ []((req.st # "idle" /\ req.ep = "announce")
             => (ua.asset_name # "" /\ ua.qualified_name # ""))
    /\ [][(pc = "sync_ret" /\ syn.caller = "ua" /\ pc' # pc)
           => IF ua.asset_name = "" \/ ua.qualified_name = ""
              THEN /\ pc' = "ua_ret"
                   /\ req' = NoReq
                   /\ ua'.ret = "True"
                   /\ calls' = calls
              ELSE /\ pc' = "ua_ann"
                   /\ req'.ep = "announce"]_vars

\* C25, the case: an update of an asset without a display name wrote the
\* attributes, synced three tags and returned True without an announcement.
UpdatedWithoutAnnouncement ==
    /\ pc = "ua_ret"
    /\ ua.asset_name = ""
    /\ ua.qualified_name # ""
    /\ ua.result
    /\ Cardinality(ua.desired) = 3
    /\ ua.ret = "True"
    /\ calls >= 3

\* The typedef of the catalog that the update in flight names.
UpdatedBmDef == CHOOSE d \in Range(cat_bm) : d.name = req.arg.name

\* C26: when the catalog applied the update of _update_bm_def_options, a
\* second call with the same image_id on the definition that resulted would
\* find nothing to change.
OptionsUpdateIsIdempotent ==
    (pc = "emd_opts" /\ req.st = "done" /\ req.applied)
        => ~OptionsChanged(UpdatedBmDef, emd.image_id)

\* C22 as stated: whatever calls of build_tlx_tag_registry and
\* ensure_dynamic_tag came before, the identifier ensure_dynamic_tag returns
\* is in the registry.
ReturnedTagIsRegistered == pc = "edt_ret" => edt.result \in tlx_tag_names

\* C22 as amended: the identifier returned is in _created_tags; it is in the
\* registry when the call looked it up or created it, and also when the call
\* was short-circuited unless build_tlx_tag_registry was called after a tag
\* had been registered.
ReturnedTagIsRegisteredUnlessRebuilt ==
    pc = "edt_ret" =>
        /\ edt.result \in created_tags
        /\ (~edt.short \/ ~rebuilt) => edt.result \in tlx_tag_names

\* C22, the case: after a registry scan that found tags, a call for a
\* category of an earlier run was short-circuited and returned a registry
\* tag.
ShortCircuitReturnedRegistryTag ==
    /\ pc = "edt_ret"
    /\ edt.short
    /\ ~rebuilt
    /\ edt.result \in tlx_tag_names
    /\ Cardinality(tlx_tag_names) >= 2

\* C27: a call of ensure_dynamic_tag for a category for which a call has
\* returned before issues no request.
EnsuredCategoryIssuesNoCall ==
    (pc \in {"edt_get", "edt_post"}) => edt.cat \notin ensured

\* A TrustLogix policy is linked to the persona in the catalog.
TlxPolicyLinked(persona_guid) ==
    \E i \in 1..Len(cat_policies) :
        /\ cat_policies[i].persona = persona_guid
        /\ IsTlxPolicyName(cat_policies[i].name)

\* C28: ensure_metadata_policy issues the create request of a policy only if
\* no TrustLogix policy is linked to the target persona in the catalog.
PolicyCreatedOnlyIfAbsent ==
    (pc = "emp_create" /\ req.st = "pending")
        => ~TlxPolicyLinked(req.arg.persona)

\* The badge definition of a name.
BadgeDefOf(name) ==
    BADGE_DEFS[CHOOSE i \in 1..Len(BADGE_DEFS) : BADGE_DEFS[i].name = name]

\* The names of the badge definitions whose attribute is resolved, in the
\* order of the definitions.
ResolvedBadgeNames ==
    LET on == {i \in 1..Len(BADGE_DEFS) :
                  BADGE_DEFS[i].cm_attr_key \in DOMAIN attr_names}
        nth(k) == CHOOSE i \in on : Cardinality({j \in on : j < i}) = k - 1
    IN  [k \in 1..Cardinality(on) |-> BADGE_DEFS[nth(k)].name]

\* C29: ensure_badges sends one request for each badge definition whose
\* attribute is resolved and none for another or under an unresolved schema;
\* the request carries the GUID of the badge the catalog holds under the
\* qualified name, or no GUID when the catalog holds none, and the conditions
\* in the order of the definition.
BadgeRequestFollowsCatalog ==
    /\ pc \in {"ebd_find", "ebd_write"} => cm_internal_name # None
    /\ pc = "ebd_write" =>
         /\ ebd.sent \o [i \in 1..Len(ebd.todo) |-> ebd.todo[i].name]
               = ResolvedBadgeNames
         /\ req.arg.name = ebd.sent[Len(ebd.sent)]
         /\ LET badge_def == BadgeDefOf(req.arg.name)
            IN  /\ Len(req.arg.conditions) = Len(badge_def.conditions)
                /\ \A i \in 1..Len(badge_def.conditions) :
                      /\ req.arg.conditions[i].badgeConditionOperator
                            = badge_def.conditions[i][1]
                      /\ req.arg.conditions[i].badgeConditionValue
                            = badge_def.conditions[i][2]
                      /\ req.arg.conditions[i].badgeConditionColorhex
                            = badge_def.conditions[i][3]
    /\ (pc = "ebd_write" /\ req.st = "pending") =>
         LET held == {i \in 1..Len(cat_badges) :
                         cat_badges[i].qualifiedName = req.arg.qualifiedName}
         IN  IF held = {} THEN req.arg.guid = <<>>
             ELSE \E i \in held : req.arg.guid = cat_badges[i].guid

\* main has made the call.
Called(name) == \E i \in 1..Len(mn.log) : mn.log[i] = name

\* The call of main at place i of its calls follows a call of the name.
Follows(i, name) == \E j \in 1..(i - 1) : mn.log[j] = name

\* No call of main is running: the client is back in main.
BackInMain ==
    /\ pc = "idle"
    /\ ~emd.active /\ ~ebd.active /\ ~emp.active /\ ~ud.active
    /\ ua = NoUa

\* C30: main makes a call only after the call before it returned; it calls
\* build_tlx_tag_registry and get_asset_map, which builds the domain index,
\* only after ensure_metadata_def, and update_asset and update_domain only
\* after both; and after an initialization that raised it calls neither
\* update_asset nor update_domain.
InitPrecedesWrites ==
    /\ [](/\ \A i \in 1..Len(mn.log) :
               /\ mn.log[i] \in {"build_tlx_tag_registry", "get_asset_map"}
                     => Follows(i, "ensure_metadata_def")
               /\ mn.log[i] \in {"update_asset", "update_domain"}
                     => /\ Follows(i, "build_tlx_tag_registry")
                        /\ Follows(i, "get_asset_map")
          /\ (ua # NoUa \/ ud.active)
                => mn.at \notin Range(INIT_ORDER) \cup {"in_get_asset_map"}
          /\ mn.init_failed
                => ~Called("update_asset") /\ ~Called("update_domain"))
    /\ [][mn.log' # mn.log => BackInMain]_vars

\* The first attribute write of a run goes out, after the six calls of the
\* initialization.
FirstWriteAfterInit ==
    /\ pc = "ua_bm"
    /\ req.st = "pending"
    /\ mn.log = INIT_ORDER \o <<"update_asset">>

\* The accounts of the groups, and of the report.
RECURSIVE CountAccounts(_)
CountAccounts(groups) ==
    IF groups = <<>> THEN 0
    ELSE Len(Head(groups).accounts) + CountAccounts(Tail(groups))

RECURSIVE CountChildren(_)
CountChildren(report) ==
    IF report = <<>> THEN 0
    ELSE Len(Head(report).children) + CountChildren(Tail(report))

\* main has returned with a report of every group and every account of the
\* scan.
ReportComplete ==
    /\ mn.at = "done"
    /\ mn.accounts = <<>>
    /\ Len(mn.final_report_data) = Len(mn.domain_groups)
    /\ CountChildren(mn.final_report_data) = CountAccounts(mn.domain_groups)

\* C31: from the moment main finds the abort flag up after update_asset it
\* calls neither update_asset nor update_domain again, and it still goes on:
\* until it has returned a step of the scan or of the report is open to it,
\* and it returns with the report of all accounts; an update_asset that
\* returned False while the flag is down leaves the loop at the entries that
\* follow, and the next of them is updated.
AbortStopsWrites ==
    /\ [](mn.abort_seen > 0
            => /\ Len(mn.log) = mn.abort_seen
               /\ ua = NoUa
               /\ ~ud.active
               /\ mn.at # "done"
                    => ENABLED (\/ MainScanAccount \/ MainScanDb
                                \/ MainAfterDb \/ MainReport
                                \/ MainUpdateDomain \/ MainDone)
               /\ mn.at = "done" => ReportComplete)
    /\ [][/\ (mn.at = "updated" /\ mn'.at # "updated"
                 /\ lastRet.val # "True" /\ ~ShouldAbort)
             => /\ mn'.at = "entry"
                /\ mn'.entries = mn.entries
                /\ mn'.atlan_enabled = mn.atlan_enabled
          /\ (mn.at = "entry" /\ mn.entries # <<>> /\ mn' # mn)
             => mn'.log = Append(mn.log, "update_asset")]_vars

\* main has found the abort flag up in the first account, and the second is
\* still to scan.
AbortSeenBeforeLastAccount ==
    /\ mn.abort_seen > 0
    /\ mn.at = "scan"
    /\ Len(mn.accounts) = 1
    /\ CountAccounts(mn.domain_groups) = 1

\* C32: after _resolve_attr_names a key of ATTR_DEFS is mapped if and only if
\* the live definition holds an attribute that is not archived under exactly
\* the display name expected for the key, the value is the internal name of
\* such an attribute, and nothing but keys of ATTR_DEFS is mapped.
LiveMatches(display) ==
    {i \in 1..Len(cat_bm[1].attributeDefs) :
        /\ cat_bm[1].attributeDefs[i].displayName = display
        /\ ~cat_bm[1].attributeDefs[i].archived}

ResolvedExactly ==
    cm_internal_name # None =>
        /\ DOMAIN attr_names \subseteq
               {ATTR_DEFS[i].key : i \in 1..Len(ATTR_DEFS)}
        /\ \A i \in 1..Len(ATTR_DEFS) :
              LET key == ATTR_DEFS[i].key
                  hits == LiveMatches(ATTR_DEFS[i].display)
              IN  /\ key \in DOMAIN attr_names <=> hits # {}
                  /\ key \in DOMAIN attr_names =>
                        \E h \in hits :
                           attr_names[key] = cat_bm[1].attributeDefs[h].name

\* The live definition holds Total Risks archived and under another case, and
\* Scan Status as it is expected: only scan_status is resolved.
ResolvedBesideArchived ==
    /\ cm_internal_name # None
    /\ \E i, j \in 1..Len(cat_bm[1].attributeDefs) :
          /\ cat_bm[1].attributeDefs[i].displayName = "Total Risks"
          /\ cat_bm[1].attributeDefs[i].archived
          /\ cat_bm[1].attributeDefs[j].displayName = "Scan Status"
          /\ ~cat_bm[1].attributeDefs[j].archived
    /\ DOMAIN attr_names = {"scan_status"}

\* C33: update_asset returns True if and only if its attribute write returned
\* a value: the flag is taken when that write returns, no later step of the
\* call changes it, and a call that never comes to the write returns False.
ReturnFollowsAttributeWrite ==
    /\ [](pc = "ua_ret" => (ua.ret = "True" <=> ua.result))
    /\ [][(pc = "ua_bm" /\ req.st = "done" /\ pc' # "ua_bm")
            => ua'.result = (req.ret # "none")]_vars
    /\ [][(pc # "ua_bm" /\ ua' # NoUa) => ua'.result = ua.result]_vars

\* update_asset returns True although the tags it asked the sync for are not
\* all on the asset.
ReturnedTrueAfterFailedSync ==
    /\ pc = "ua_ret"
    /\ ua.ret = "True"
    /\ ~(ua.desired \subseteq cat_tags[ua.guid])

\* C34: when _sync_tags_on_asset returns after its read returned the asset
\* and the catalog applied every change it asked for, with the desired set
\* inside the registry, the registry tags on the asset are the desired set;
\* no step of such a call changes the tags of the asset outside the registry;
\* a call whose read failed issues no removal.
SyncLeavesDesired ==
    /\ [](pc = "sync_ret" =>
            /\ (syn.read_ok /\ syn.applied
                   /\ syn.desired \subseteq tlx_tag_names)
                  => cat_tags[syn.guid] \cap tlx_tag_names = syn.desired
            /\ ~syn.read_ok => syn.dels = {})
    /\ [][(pc \in SyncPcs /\ syn.desired \subseteq tlx_tag_names)
            => /\ cat_tags'[syn.guid] \ tlx_tag_names
                    = cat_tags[syn.guid] \ tlx_tag_names
               /\ tlx_tag_names' = tlx_tag_names]_vars

\* A sync within the registry returns after it removed a tag and added one,
\* every call answered, and a tag outside the registry is still on the asset.
SyncReplacedBesideForeignTag ==
    /\ pc = "sync_ret"
    /\ syn.read_ok
    /\ syn.applied
    /\ syn.desired \subseteq tlx_tag_names
    /\ syn.dels # {}
    /\ syn.adds # {}
    /\ cat_tags[syn.guid] \ tlx_tag_names # {}

\* C34, the second case: the read failed and a registry tag that is not
\* desired is still on the asset when the sync returns.
StaleTagLeftAfterFailedRead ==
    /\ pc = "sync_ret"
    /\ ~syn.read_ok
    /\ (cat_tags[syn.guid] \cap tlx_tag_names) \ syn.desired # {}

\* C35: every member of the tag registry has a name under the prefix of this
\* system, or is the name of a classification whose display name starts with
\* a reserved word, or is the name of a classification this system created;
\* no classification of another system is in the registry.
DisplayReserved(t) ==
    \E i \in 1..Len(cat_classdefs) :
       /\ cat_classdefs[i].name = t
       /\ \/ StartsWith(cat_classdefs[i].displayName, TrustLogixWord)
          \/ StartsWith(cat_classdefs[i].displayName, TlxWord)

CreatedByEngine(t) ==
    \E i \in 1..Len(cat_classdefs) :
       /\ cat_classdefs[i].name = t
       /\ cat_classdefs[i] \notin UnrelatedDefs

RegistryHoldsOwnTagsOnly ==
    \A t \in tlx_tag_names :
       \/ StartsWith(t, TAG_PREFIX)
       \/ DisplayReserved(t)
       \/ CreatedByEngine(t)

\* The sum of the counts of a categories dict.
RECURSIVE SumCounts(_)
SumCounts(cats) ==
    IF cats = <<>> THEN 0 ELSE Head(cats).count + SumCounts(Tail(cats))

\* total = high + medium + low = the sum of the category counts.
Balanced(summary) ==
    /\ summary.total = summary.high + summary.medium + summary.low
    /\ summary.total = SumCounts(summary.categories)

\* The sum of the totals of the summaries of accounts.
RECURSIVE SumTotals(_)
SumTotals(accounts) ==
    IF accounts = <<>> THEN 0
    ELSE Head(accounts).risks_summary.total + SumTotals(Tail(accounts))

\* The accounts with a hierarchy among the accounts main has not come to.
RECURSIVE TreesIn(_)
TreesIn(accounts) ==
    IF accounts = <<>> THEN 0
    ELSE (IF Head(accounts).has_tree THEN 1 ELSE 0) + TreesIn(Tail(accounts))

\* The accounts of the report that lie ahead or are placed in a group; the
\* account under scan is still the head of the accounts ahead.
AccountsHeld(m) == TreesIn(m.accounts) + CountAccounts(m.domain_groups)

\* C36: every summary update_asset is called with, for an asset or for a
\* domain, has total = high + medium + low = the sum of its category counts,
\* and so has every rollup of the report; the groups have distinct domains,
\* and every step of main keeps the number of accounts ahead or in a group:
\* an account with a hierarchy goes into one group when its scan ends.
SummariesBalanced ==
    /\ [](/\ ua # NoUa => Balanced(ua.summary)
          /\ risk_summary # <<>> => Balanced(risk_summary)
          /\ \A i \in 1..Len(mn.final_report_data) :
                /\ Balanced(mn.final_report_data[i].rollup)
                /\ mn.final_report_data[i].rollup.total
                     = SumTotals(mn.final_report_data[i].children)
          /\ \A i, j \in 1..Len(mn.domain_groups) :
                mn.domain_groups[i].domain = mn.domain_groups[j].domain
                   => i = j)
    /\ [][AccountsHeld(mn') = AccountsHeld(mn)]_vars

\* A domain of the report holds two accounts with risks, and its rollup is
\* being written to the domain.
DomainRollupOfTwoWritten ==
    /\ ud.active
    /\ pc = "ua_bm"
    /\ \E i \in 1..Len(mn.final_report_data) :
          /\ mn.final_report_data[i].name = ud.domain_name
          /\ Len(mn.final_report_data[i].children) = 2
          /\ ua.summary = mn.final_report_data[i].rollup
          /\ ua.summary.total = 2

\* C37: with the first matching rule winning, every rule of every badge of
\* the catalog colours the badge for some value, and the Total Risks badge
\* is shown in red for every value of 5 or more.
BadgeInputs(badge) ==
    IF badge.name \in CountBadges
    THEN {ShownFor(badge, number, <<>>) : number \in 0..MaxBadgeValue}
    ELSE {ShownFor(badge, 0, text) : text \in StatusTexts}

EveryBadgeRuleReachable ==
    shown # NoShown =>
        /\ \A i \in 1..Len(cat_badges) :
              \A k \in 1..Len(cat_badges[i].conditions) :
                 \E s \in BadgeInputs(cat_badges[i]) : s.rule = k
        /\ (shown.badge = "Total Risks" /\ shown.number >= 5)
              => shown.colour = "#BF1B1B"

\* C37, what does hold: a rule colours the badge for every value, and it is
\* the first in the order of BADGE_DEFS that matches; the third rule of
\* Total Risks never does.
FirstMatchingRuleShown ==
    shown # NoShown =>
        /\ shown.rule # 0
        /\ (shown.badge = "Total Risks" /\ shown.number >= 1)
              => shown.colour = "#F7B43D"

\* C38: the calls of ensure_dynamic_tag that have returned gave one tag
\* identifier per category name.
SameCategorySameId ==
    \A p, q \in returned : p[1] = q[1] => p[2] = q[2]

\* C38, what does hold: a call that returns the identifier computed from the
\* name has cached it, so every later call for that name returns it again.
ComputedIdIsKept ==
    \A p \in returned : p[2] = MakeTagId(p[1]) => p[2] \in created_tags

\* C39: ensure_dynamic_tag sends a create request only after its search
\* returned the typedefs and none of them has the tag id as its name or the
\* category name as its display name, and never for a category name for
\* which an earlier call of the run sent one.
CreateOnlyAfterEmptySearch ==
    /\ [][(pc = "edt_get" /\ pc' = "edt_post")
            => /\ req.ret = "json"
               /\ FirstMatch(req.resp, edt.tag_id, edt.cat) = 0]_vars
    /\ [](pc = "edt_post"
            => ~\E p \in returned : p[1] = edt.cat /\ p[3])

\* C39, what does hold: a create request is sent after every search but one
\* that returned a typedef of the tag id or of the category name.
CreateUnlessFound ==
    [][pc = "edt_get" /\ req.st = "done"
         => (pc' = "edt_post"
               <=> ~(req.ret = "json"
                       /\ FirstMatch(req.resp, edt.tag_id, edt.cat) # 0))]_vars

=============================================================================
